---- MODULE Spec2Model ----
(***************************************************************************)
(* Verification model of the nlq-prototype backend.                        *)
(*                                                                         *)
(*   SpecCache      DynamicSchemaManager used as a sequential API          *)
(*                  (config/schema_config.py)                              *)
(*   SpecCacheConc  the process-wide schema_manager called by concurrent   *)
(*                  requests (config/schema_config.py)                     *)
(*   SpecProfiling  the /profiling event stream and its session store      *)
(*                  (api/routes.py, app.py, firestore_db.py)               *)
(*   SpecStore      FirestoreManager session life cycle (firestore_db.py)  *)
(*   SpecExec       IntegratedAnalyzer.execute_bigquery (core/analyzer.py) *)
(*   SpecReport     IntegratedAnalyzer.generate_analysis_report and        *)
(*                  generate_html_report (core/analyzer.py)                *)
(*   SpecData       analyze_data_structure (utils/data_utils.py)           *)
(*   SpecNumeric    analyze_data_structure, also on longer numeric columns *)
(*   SpecHandlers   the /quick and /analyze handlers (api/routes.py)       *)
(*   SpecChart      suggest_chart_config (utils/data_utils.py)             *)
(*   SpecSql        IntegratedAnalyzer._clean_sql_query (core/analyzer.py) *)
(*   SpecRel        analyze_table_relationship (utils/bigquery_utils.py)   *)
(*   SpecDelete     FirestoreManager.delete_analysis_session               *)
(*                  (firestore_db.py)                                      *)
(*   SpecLogs       concurrent add_log calls on one session                *)
(*                  (firestore_db.py)                                      *)
(*   SpecRuns       two /profiling runs started concurrently               *)
(*                  (api/routes.py, firestore_db.py)                       *)
(***************************************************************************)
EXTENDS Integers, Sequences, FiniteSets, TLC

VARIABLES
    cached_schemas,   \* DynamicSchemaManager.cached_schemas: schema_key -> entry
    call,             \* the API call executed last on the schema manager
    prev,             \* operation and key of the call executed before it
    before,           \* entry of the called key as it was before the call
    ret,              \* value returned by the call executed last
    th,               \* per concurrent request: position inside its current call
    last_write,       \* per key: metadata of the register_schema executed last
    store,            \* FirestoreManager.db, its documents, and the clocks
    trail,            \* the last three FirestoreManager calls, oldest first
    sret,             \* value returned by the FirestoreManager call executed last
    ops,              \* number of FirestoreManager calls executed
    req,              \* the /profiling request: engine, parameters, module serving it
    pf_pc,            \* where the response generator is suspended
    events,           \* the events yielded to the consumer so far
    session_id,       \* profiling_generator's local session_id
    sections,         \* profiling_report["sections"]
    sec_i,            \* index of the section in progress
    disconnected,     \* the consumer has gone and the generator was closed
    marks,            \* which update_session_status calls the generator made
    ex_pc,            \* execute_bigquery: position inside the call
    ex_rows,          \* execute_bigquery: the local list rows
    ex_fetched,       \* number of rows the warehouse has handed over
    ex_result,        \* execute_bigquery: what the call returned
    rp_in,            \* report generation: method called, client, rows passed
    rp_pc,            \* report generation: position inside the call
    rp_calls,         \* responses of the text-generation calls made so far
    rp_result,        \* report generation: what the call returned or raised
    da_in,            \* analyze_data_structure: the argument data
    da_result,        \* analyze_data_structure: what the call returned
    hd_req,           \* /quick or /analyze: the request and the engine
    hd_pc,            \* /quick or /analyze: position inside the handler
    hd_calls,         \* collaborator calls the handler has made, in order
    hd_resp,          \* /quick or /analyze: the JSON response
    ch_in,            \* suggest_chart_config: data and columns
    ch_result,        \* suggest_chart_config: the returned config
    sq_in,            \* _clean_sql_query: the text returned by the service
    sq_result,        \* _clean_sql_query: the returned query
    rl_in,            \* analyze_table_relationship: the two tables' metadata
    rl_result,        \* analyze_table_relationship: the returned record
    dl_logs,          \* delete_analysis_session: log documents of the session
    dl_session,       \* delete_analysis_session: the session document exists
    dl_pc,            \* delete_analysis_session: position and locals of the call
    dl_batch,         \* delete_analysis_session: deletions held by the batch
    dl_ret,           \* delete_analysis_session: the returned value
    runs              \* concurrent callers of the store: position and locals

cacheVars == <<cached_schemas, call, prev, before, ret>>

concVars == <<th, last_write>>

storeVars == <<store, trail, sret, ops>>

profVars == <<req, pf_pc, events, session_id, sections, sec_i, disconnected,
              marks>>

execVars == <<ex_pc, ex_rows, ex_fetched, ex_result>>

reportVars == <<rp_in, rp_pc, rp_calls, rp_result>>

dataVars == <<da_in, da_result>>

handlerVars == <<hd_req, hd_pc, hd_calls, hd_resp>>

chartVars == <<ch_in, ch_result>>

sqlVars == <<sq_in, sq_result>>

relVars == <<rl_in, rl_result>>

deleteVars == <<dl_logs, dl_session, dl_pc, dl_batch, dl_ret>>

runVars == <<runs>>

extVars == <<chartVars, sqlVars, relVars, deleteVars, runVars>>

vars == <<cached_schemas, call, prev, before, ret, th, last_write,
          store, trail, sret, ops,
          req, pf_pc, events, session_id, sections, sec_i, disconnected, marks,
          ex_pc, ex_rows, ex_fetched, ex_result,
          rp_in, rp_pc, rp_calls, rp_result, da_in, da_result,
          hd_req, hd_pc, hd_calls, hd_resp,
          ch_in, ch_result, sq_in, sq_result, rl_in, rl_result,
          dl_logs, dl_session, dl_pc, dl_batch, dl_ret, runs>>

----------------------------------------------------------------------------
(* What the steps of one component leave alone.                            *)
OtherFrame == UNCHANGED <<reportVars, dataVars, handlerVars, extVars>>

CacheFrame ==
    UNCHANGED <<concVars, storeVars, profVars, execVars>> /\ OtherFrame

ConcFrame == UNCHANGED <<storeVars, profVars, execVars>> /\ OtherFrame

StoreFrame ==
    UNCHANGED <<cacheVars, concVars, profVars, execVars>> /\ OtherFrame

ProfFrame ==
    /\ UNCHANGED <<call, prev, before, ret, concVars, trail, sret, ops,
                   execVars>>
    /\ OtherFrame

ExecFrame ==
    UNCHANGED <<cacheVars, concVars, storeVars, profVars>> /\ OtherFrame

BackendFrame ==
    UNCHANGED <<cacheVars, concVars, storeVars, profVars, execVars, extVars>>

CoreFrame ==
    UNCHANGED <<cacheVars, concVars, profVars, execVars,
                reportVars, dataVars, handlerVars>>

ChartFrame ==
    CoreFrame /\ UNCHANGED <<storeVars, sqlVars, relVars, deleteVars, runVars>>

SqlFrame ==
    CoreFrame /\ UNCHANGED <<storeVars, chartVars, relVars, deleteVars, runVars>>

RelFrame ==
    CoreFrame /\ UNCHANGED <<storeVars, chartVars, sqlVars, deleteVars, runVars>>

DeleteFrame ==
    CoreFrame /\ UNCHANGED <<storeVars, chartVars, sqlVars, relVars, runVars>>

RunFrame ==
    CoreFrame /\ UNCHANGED <<trail, sret, ops, chartVars, sqlVars, relVars,
                             deleteVars>>

ReportFrame == BackendFrame /\ UNCHANGED <<dataVars, handlerVars>>

DataFrame == BackendFrame /\ UNCHANGED <<reportVars, handlerVars>>

HandlerFrame == BackendFrame /\ UNCHANGED <<reportVars, dataVars>>

----------------------------------------------------------------------------
(* Python dicts: insertion-ordered sequences of [id, info] items.          *)

EmptyDict == << >>

DictKeys(d) == { d[i].id : i \in DOMAIN d }

DictHas(d, k) == k \in DictKeys(d)

DictGet(d, k) == (CHOOSE i \in DOMAIN d : d[i].id = k)

DictItem(k, v) == [id |-> k, info |-> v]

(* metadata.get(field, default) *)
MetaGet(m, field, default) == IF field \in DOMAIN m THEN m[field] ELSE default

----------------------------------------------------------------------------
(* Inputs of the schema manager.                                           *)

ProjectIds == {"", "p1", "p2"}

TableOk == "table_info"
TableErr == "error_info"

Summary0 == [total_size_bytes |-> 0]

Metadatas ==
    { [extracted_at |-> "e0"],
      [tables |-> EmptyDict, summary |-> Summary0, extracted_at |-> "e1"],
      [tables |-> <<DictItem("t1", TableOk)>>, summary |-> Summary0,
       extracted_at |-> "e2"],
      [tables |-> <<DictItem("t1", TableOk), DictItem("t2", TableErr)>>,
       summary |-> Summary0, extracted_at |-> "e3"],
      [tables |-> <<DictItem("t2", TableOk)>>, summary |-> Summary0,
       extracted_at |-> "e4"],
      [tables |-> <<DictItem("t2", TableOk), DictItem("t1", TableErr)>>,
       summary |-> Summary0, extracted_at |-> "e5"] }

(* table_ids: List[str] = None.  given = FALSE stands for None.            *)
NoneIds == [given |-> FALSE, ids |-> << >>]

ListIds(s) == [given |-> TRUE, ids |-> s]

TableIdArgs ==
    { NoneIds, ListIds(<< >>), ListIds(<<"t1">>), ListIds(<<"t2", "t1">>),
      ListIds(<<"t3", "t1", "t3">>) }

(* Python truthiness of the table_ids argument: None and [] are falsy.     *)
TruthyIds(t) == t.given /\ Len(t.ids) > 0

(* table_ids or []                                                         *)
IdsOrEmpty(t) == IF TruthyIds(t) THEN t.ids ELSE << >>

(* project_id: str = None in clear_cache.                                  *)
NoneKey == [given |-> FALSE, project_id |-> ""]

KeyArg(p) == [given |-> TRUE, project_id |-> p]

(* Python truthiness of a project_id argument: None and "" are falsy.      *)
TruthyKey(a) == a.given /\ a.project_id # ""

----------------------------------------------------------------------------
(* DynamicSchemaManager                                                    *)

(* schema_key = f"{project_id}": formatting a str yields the same str.     *)
SchemaKey(project_id) == project_id

Cached(c, key) == key \in DOMAIN c

DictSet(c, key, v) ==
    [k \in (DOMAIN c) \cup {key} |-> IF k = key THEN v ELSE c[k]]

DictDel(c, key) == [k \in (DOMAIN c) \ {key} |-> c[k]]

NoEntries == [k \in {} |-> 0]

SchemaEntry(project_id, metadata) ==
    [project_id |-> project_id,
     tables |-> MetaGet(metadata, "tables", EmptyDict),
     summary |-> MetaGet(metadata, "summary", [k \in {} |-> 0]),
     registered_at |-> MetaGet(metadata, "extracted_at", "")]

(* Variant: an extraction without tables is not stored.                    *)
register_schema_if_tables(c, project_id, metadata) ==
    IF MetaGet(metadata, "tables", EmptyDict) = EmptyDict
    THEN c
    ELSE DictSet(c, SchemaKey(project_id), SchemaEntry(project_id, metadata))

(* Variant: the tables of an earlier entry are kept (incremental merge).   *)
register_schema_merge(c, project_id, metadata) ==
    LET new == SchemaEntry(project_id, metadata)
        old == IF Cached(c, SchemaKey(project_id))
               THEN c[SchemaKey(project_id)].tables ELSE EmptyDict
        kept == SelectSeq(old, LAMBDA it : ~DictHas(new.tables, it.id))
    IN  DictSet(c, SchemaKey(project_id),
                [new EXCEPT !.tables = new.tables \o kept])

(* Variant: an existing entry is not overwritten (first write wins).       *)
register_schema_keep_first(c, project_id, metadata) ==
    IF Cached(c, SchemaKey(project_id))
    THEN c
    ELSE DictSet(c, SchemaKey(project_id), SchemaEntry(project_id, metadata))

register_schema(c, project_id, metadata) ==
    DictSet(c, SchemaKey(project_id), SchemaEntry(project_id, metadata))

(* Variant: table_ids is iterated without the "or []" guard.               *)
generate_fallback_prompt_unguarded(project_id, table_ids) ==
    IF ~table_ids.given
    THEN [kind |-> "TypeError"]
    ELSE [kind |-> "fallback",
          project_id |-> project_id,
          lines |-> table_ids.ids,
          warning |-> TRUE]

(* [f"- `{table_id}`" for table_id in (table_ids or [])] and the warning   *)
generate_fallback_prompt(project_id, table_ids) ==
    [kind |-> "fallback",
     project_id |-> project_id,
     lines |-> IdsOrEmpty(table_ids),
     warning |-> TRUE]

(* {tid: tables[tid] for tid in target_table_ids if tid in tables}: the    *)
(* items in the order of the first occurrence of each id in the target.    *)
RECURSIVE FilterTables(_, _, _)
FilterTables(tables, ids, acc) ==
    IF ids = << >> THEN acc
    ELSE LET tid == Head(ids)
         IN  IF DictHas(tables, tid) /\ ~DictHas(acc, tid)
             THEN FilterTables(tables, Tail(ids),
                               Append(acc, tables[DictGet(tables, tid)]))
             ELSE FilterTables(tables, Tail(ids), acc)

build_detailed_schema_prompt(schema_data, target_table_ids) ==
    LET tables == schema_data.tables
        filtered == IF TruthyIds(target_table_ids)
                    THEN FilterTables(tables, target_table_ids.ids, << >>)
                    ELSE tables
    IN  [kind |-> "detailed",
         project_id |-> schema_data.project_id,
         table_count |-> Len(filtered),
         sections |-> [i \in DOMAIN filtered |->
                          [table |-> filtered[i].id,
                           failed |-> filtered[i].info = TableErr]],
         relationships |-> Len(filtered) > 1]

get_schema_prompt(c, project_id, table_ids) ==
    IF ~Cached(c, SchemaKey(project_id))
    THEN generate_fallback_prompt(project_id, table_ids)
    ELSE build_detailed_schema_prompt(c[SchemaKey(project_id)], table_ids)

clear_cache(c, arg) ==
    IF TruthyKey(arg)
    THEN IF Cached(c, SchemaKey(arg.project_id))
         THEN DictDel(c, SchemaKey(arg.project_id))
         ELSE c
    ELSE NoEntries

----------------------------------------------------------------------------
(* Sequential use of the schema manager.                                   *)

NoCall == [op |-> "none", project_id |-> "", given |-> FALSE,
           metadata |-> [extracted_at |-> "e0"], table_ids |-> NoneIds]

NoPrev == [op |-> "none", project_id |-> "", given |-> FALSE]

Absent == [present |-> FALSE, entry |-> SchemaEntry("", [extracted_at |-> "e0"])]

EntryOf(c, key) ==
    IF Cached(c, key) THEN [present |-> TRUE, entry |-> c[key]] ELSE Absent

NoRet == [kind |-> "none"]

Summarise(cl) == [op |-> cl.op, project_id |-> cl.project_id, given |-> cl.given]

InitCacheVars ==
    /\ cached_schemas = NoEntries
    /\ call = NoCall
    /\ prev = NoPrev
    /\ before = Absent
    /\ ret = NoRet

RegisterSchema(p, m) ==
    /\ cached_schemas' = register_schema(cached_schemas, p, m)
    /\ call' = [op |-> "register_schema", project_id |-> p, given |-> TRUE,
                metadata |-> m, table_ids |-> NoneIds]
    /\ prev' = Summarise(call)
    /\ before' = EntryOf(cached_schemas, SchemaKey(p))
    /\ ret' = NoRet
    /\ CacheFrame

GetSchemaPrompt(p, t) ==
    /\ ret' = get_schema_prompt(cached_schemas, p, t)
    /\ call' = [op |-> "get_schema_prompt", project_id |-> p, given |-> TRUE,
                metadata |-> [extracted_at |-> "e0"], table_ids |-> t]
    /\ prev' = Summarise(call)
    /\ before' = EntryOf(cached_schemas, SchemaKey(p))
    /\ UNCHANGED cached_schemas
    /\ CacheFrame

ClearCache(a) ==
    /\ cached_schemas' = clear_cache(cached_schemas, a)
    /\ call' = [op |-> "clear_cache", project_id |-> a.project_id,
                given |-> a.given, metadata |-> [extracted_at |-> "e0"],
                table_ids |-> NoneIds]
    /\ prev' = Summarise(call)
    /\ before' = EntryOf(cached_schemas, SchemaKey(a.project_id))
    /\ ret' = NoRet
    /\ CacheFrame

NextCache ==
    \/ \E p \in ProjectIds, m \in Metadatas : RegisterSchema(p, m)
    \/ \E p \in ProjectIds, t \in TableIdArgs : GetSchemaPrompt(p, t)
    \/ \E a \in {NoneKey} \cup {KeyArg(p) : p \in ProjectIds} : ClearCache(a)

----------------------------------------------------------------------------
(* The global schema_manager called by concurrent requests.  A dict store  *)
(* and a dict lookup are single interpreter steps; get_schema_prompt is a  *)
(* membership test followed by a lookup.                                   *)

Requests == {"r1", "r2"}

MaxCalls == 2

ConcProjects == {"p1", "p2"}

ConcMetadatas == { m \in Metadatas : m.extracted_at \in {"e0", "e2", "e3"} }

ConcIds == { NoneIds, ListIds(<<"t2", "t1">>) }

IdleRequest == [pc |-> "idle", project_id |-> "", metadata |-> [extracted_at |-> "e0"],
                table_ids |-> NoneIds, result |-> NoRet, calls |-> 0]

NeverWritten == [written |-> FALSE, metadata |-> [extracted_at |-> "e0"]]

InitConcVars ==
    /\ th = [r \in Requests |-> IdleRequest]
    /\ last_write = [p \in ProjectIds |-> NeverWritten]

IdleCacheVars ==
    /\ call = NoCall
    /\ prev = NoPrev
    /\ before = Absent
    /\ ret = NoRet

ConcStartRegister(r, p, m) ==
    /\ th[r].pc = "idle"
    /\ th[r].calls < MaxCalls
    /\ th' = [th EXCEPT ![r] = [pc |-> "register", project_id |-> p,
                                metadata |-> m, table_ids |-> NoneIds,
                                result |-> NoRet, calls |-> th[r].calls + 1]]
    /\ UNCHANGED <<cached_schemas, last_write, call, prev, before, ret>>
    /\ ConcFrame

ConcStartGet(r, p, t) ==
    /\ th[r].pc = "idle"
    /\ th[r].calls < MaxCalls
    /\ th' = [th EXCEPT ![r] = [pc |-> "get_check", project_id |-> p,
                                metadata |-> [extracted_at |-> "e0"],
                                table_ids |-> t,
                                result |-> NoRet, calls |-> th[r].calls + 1]]
    /\ UNCHANGED <<cached_schemas, last_write, call, prev, before, ret>>
    /\ ConcFrame

(* self.cached_schemas[schema_key] = {...}                                 *)
ConcRegisterStore(r) ==
    /\ th[r].pc = "register"
    /\ cached_schemas' = register_schema(cached_schemas, th[r].project_id,
                                         th[r].metadata)
    /\ last_write' = [last_write EXCEPT ![th[r].project_id] =
                         [written |-> TRUE, metadata |-> th[r].metadata]]
    /\ th' = [th EXCEPT ![r].pc = "idle"]
    /\ UNCHANGED <<call, prev, before, ret>>
    /\ ConcFrame

(* if schema_key not in self.cached_schemas: return fallback               *)
ConcGetCheck(r) ==
    /\ th[r].pc = "get_check"
    /\ IF ~Cached(cached_schemas, SchemaKey(th[r].project_id))
       THEN th' = [th EXCEPT ![r].pc = "idle",
                             ![r].result = generate_fallback_prompt(
                                              th[r].project_id, th[r].table_ids)]
       ELSE th' = [th EXCEPT ![r].pc = "get_read"]
    /\ UNCHANGED <<cached_schemas, last_write, call, prev, before, ret>>
    /\ ConcFrame

(* schema_data = self.cached_schemas[schema_key]; build the prompt         *)
ConcGetRead(r) ==
    /\ th[r].pc = "get_read"
    /\ th' = [th EXCEPT ![r].pc = "idle",
                        ![r].result =
                            IF Cached(cached_schemas, SchemaKey(th[r].project_id))
                            THEN build_detailed_schema_prompt(
                                     cached_schemas[SchemaKey(th[r].project_id)],
                                     th[r].table_ids)
                            ELSE [kind |-> "KeyError"]]
    /\ UNCHANGED <<cached_schemas, last_write, call, prev, before, ret>>
    /\ ConcFrame

NextCacheConc ==
    \/ \E r \in Requests, p \in ConcProjects, m \in ConcMetadatas :
           ConcStartRegister(r, p, m)
    \/ \E r \in Requests, p \in ConcProjects, t \in ConcIds :
           ConcStartGet(r, p, t)
    \/ \E r \in Requests : ConcRegisterStore(r)
    \/ \E r \in Requests : ConcGetCheck(r)
    \/ \E r \in Requests : ConcGetRead(r)

----------------------------------------------------------------------------
(* FirestoreManager (firestore_db.py).                                     *)
(*                                                                         *)
(* store.present   self.db is a client (FALSE: self.db = None)             *)
(* store.sessions  collection analysis_sessions: sid -> document    *)
(* store.logs      sub-collections logs: sid -> (log_id -> document)*)
(* store.now       the wall clock read by datetime.now() and time.time()   *)
(* store.srv       the server clock behind firestore.SERVER_TIMESTAMP      *)
(*                                                                         *)
(* Every call to the store is a blocking round trip during which the wall  *)
(* clock advances; a round trip may fail with an exception.  The failing   *)
(* round trips of one method call are given as a set F of their positions. *)

StatusRunning == "in_progress"      \* "진행 중"
StatusCompleted == "completed"      \* "완료"
StatusFailed == "failed"            \* "실패"

MsgStarted == "session_started"     \* "프로파일링 세션이 시작되었습니다."
MsgCompleted == "profiling_completed" \* "프로파일링이 성공적으로 완료되었습니다."
MsgFailed == "profiling_failed"     \* "프로파일링 실패: ..."
MsgReportSaved == "report_saved"    \* "프로파일링 리포트 저장 완료 ..."

NoReport == [sections |-> << >>, saved |-> FALSE]

NoLogs == [k \in {} |-> 0]

LogsOf(db, sid) == IF sid \in DOMAIN db.logs THEN db.logs[sid] ELSE NoLogs

Exists(db, sid) == sid \in DOMAIN db.sessions

(* a round trip that raised: only time has passed                          *)
Elapse(db) == [db EXCEPT !.now = @ + 1]

(* log_id = f"{timestamp.strftime('%Y%m%d_%H%M%S_%f')}_{log_type}"         *)
LogId(timestamp, log_type) == <<timestamp, log_type>>

(* log_ref.set(log_data) for the timestamp read by datetime.now(): the     *)
(* document named log_id is created, or replaced if there is one           *)
LogSetAt(db, sid, timestamp, log_type, message) ==
    LET id == LogId(timestamp, log_type)
        doc == [id |-> id, log_type |-> log_type, message |-> message,
                timestamp |-> timestamp, firestore_timestamp |-> db.srv + 1]
    IN  [db EXCEPT !.logs = DictSet(@, sid, DictSet(LogsOf(db, sid), id, doc)),
                   !.srv = @ + 1,
                   !.now = @ + 1]

(* the same when nothing else runs between datetime.now() and the set      *)
LogSet(db, sid, log_type, message) ==
    LogSetAt(db, sid, db.now, log_type, message)

add_log(db, sid, log_type, message, f_set, f_update) ==
    IF ~db.present THEN db
    ELSE IF f_set THEN Elapse(db)
    ELSE LET d1 == LogSet(db, sid, log_type, message)
         IN  IF f_update \/ ~Exists(d1, sid)
             THEN Elapse(d1)
             ELSE [d1 EXCEPT
                     !.sessions[sid].log_count = @ + 1,
                     !.sessions[sid].latest_log_type = log_type,
                     !.sessions[sid].error_count =
                         IF log_type = "error" THEN @ + 1 ELSE @,
                     !.srv = @ + 1,
                     !.now = @ + 1]

NewSession(session_data) ==
    [status |-> session_data.status,
     project_id |-> session_data.project_id,
     log_count |-> 0,
     latest_log_type |-> "",
     error_count |-> 0,
     is_completed |-> FALSE,
     has_error |-> FALSE,
     ended |-> FALSE,
     error_message |-> "",
     profiling_report |-> NoReport]

(* create_analysis_session re-raises a failure of session_ref.set          *)
create_raises(db, F) == db.present /\ 1 \in F

create_analysis_session(db, session_data, F) ==
    IF ~db.present THEN db
    ELSE IF 1 \in F THEN Elapse(db)
    ELSE LET d1 == [db EXCEPT
                      !.sessions = DictSet(@, session_data.id,
                                           NewSession(session_data)),
                      !.srv = @ + 1,
                      !.now = @ + 1]
         IN  add_log(d1, session_data.id, "system", MsgStarted,
                     2 \in F, 3 \in F)

save_analysis_result(db, sid, data, F) ==
    IF ~db.present THEN db
    ELSE LET d1 == add_log(db, sid, "result", MsgReportSaved,
                           1 \in F, 2 \in F)
         IN  IF 3 \in F \/ ~Exists(d1, sid)
             THEN Elapse(d1)
             ELSE [d1 EXCEPT
                     !.sessions[sid].profiling_report =
                         [sections |-> data, saved |-> TRUE],
                     !.srv = @ + 1,
                     !.now = @ + 1]

(* the session_ref.update(update_data) that ends update_session_status     *)
StatusFields(doc, status, error_message) ==
    IF status = StatusCompleted
    THEN [doc EXCEPT !.status = status, !.ended = TRUE, !.is_completed = TRUE]
    ELSE IF status = StatusFailed
    THEN [doc EXCEPT !.status = status, !.ended = TRUE,
                     !.error_message = error_message,
                     !.is_completed = FALSE, !.has_error = TRUE]
    ELSE [doc EXCEPT !.status = status]

(* Variant: the completion update writes no log entry.                     *)
update_session_status_silent(db, sid, status, error_message, F) ==
    IF ~db.present THEN db
    ELSE IF 4 \in F \/ ~Exists(db, sid)
         THEN Elapse(db)
         ELSE [db EXCEPT
                 !.sessions[sid] =
                     StatusFields(@, status, error_message),
                 !.srv = @ + 1,
                 !.now = @ + 1]

update_session_status(db, sid, status, error_message, F) ==
    IF ~db.present THEN db
    ELSE LET d0 == IF status = StatusCompleted
                   THEN Elapse(db)      \* session_ref.get(), failure ignored
                   ELSE db
             d1 == IF status = StatusCompleted
                   THEN add_log(d0, sid, "system", MsgCompleted,
                                2 \in F, 3 \in F)
                   ELSE IF status = StatusFailed
                   THEN add_log(d0, sid, "error", MsgFailed,
                                2 \in F, 3 \in F)
                   ELSE d0
         IN  IF 4 \in F \/ ~Exists(d1, sid)
             THEN Elapse(d1)
             ELSE [d1 EXCEPT
                     !.sessions[sid] =
                         StatusFields(@, status, error_message),
                     !.srv = @ + 1,
                     !.now = @ + 1]

(* order_by('firestore_timestamp', ASCENDING), ties by document id         *)
LogBefore(a, b) ==
    \/ a.firestore_timestamp < b.firestore_timestamp
    \/ /\ a.firestore_timestamp = b.firestore_timestamp
       /\ a.timestamp <= b.timestamp

RECURSIVE OrderLogs(_)
OrderLogs(docs) ==
    IF docs = {} THEN << >>
    ELSE LET first == CHOOSE a \in docs : \A b \in docs : LogBefore(a, b)
         IN  <<first>> \o OrderLogs(docs \ {first})

NoneResult == [found |-> FALSE, status |-> "", log_count |-> 0,
               has_logs |-> FALSE, logs |-> << >>, logs_count |-> 0]

get_analysis_session_with_logs(db, sid, include_logs, F) ==
    IF ~db.present THEN NoneResult
    ELSE IF 1 \in F \/ ~Exists(db, sid) THEN NoneResult
    ELSE IF include_logs /\ 2 \in F THEN NoneResult
    ELSE LET doc == db.sessions[sid]
             all_logs == IF include_logs
                         THEN OrderLogs({ LogsOf(db, sid)[i] :
                                          i \in DOMAIN LogsOf(db, sid) })
                         ELSE << >>
         IN  [found |-> TRUE, status |-> doc.status,
              log_count |-> doc.log_count,
              has_logs |-> include_logs,
              logs |-> all_logs, logs_count |-> Len(all_logs)]

(* the reads of get_analysis_session_with_logs take time as well           *)
AfterGet(db, include_logs) ==
    IF ~db.present THEN db
    ELSE IF include_logs THEN Elapse(Elapse(db)) ELSE Elapse(db)

----------------------------------------------------------------------------
(* Sequential use of the session store.                                    *)

MaxOps == 3

TicksPerMs == 2

(* "id": str(int(time.time() * 1000))                                      *)
MintSessionId(now) == now \div TicksPerMs

SessionIds == {0, 1}

SessionData(id, project_id) ==
    [id |-> id, project_id |-> project_id, status |-> StatusRunning]

NoOp == [op |-> "none", session_id |-> 0, status |-> "", include_logs |-> FALSE,
         clean |-> TRUE]

Push(tr, o) == <<tr[2], tr[3], o>>

InitStoreVars ==
    /\ store \in { [present |-> b, sessions |-> NoEntries, logs |-> NoEntries,
                     now |-> 0, srv |-> 0] : b \in BOOLEAN }
    /\ trail = <<NoOp, NoOp, NoOp>>
    /\ sret = NoneResult
    /\ ops = 0

StoreCreate(sid, F) ==
    /\ ops < MaxOps
    /\ store' = create_analysis_session(store, SessionData(sid, "p1"), F)
    /\ trail' = Push(trail, [op |-> "create", session_id |-> sid,
                             status |-> StatusRunning, include_logs |-> FALSE,
                             clean |-> F = {}])
    /\ sret' = NoneResult
    /\ ops' = ops + 1
    /\ StoreFrame

StoreUpdateStatus(sid, status, F) ==
    /\ ops < MaxOps
    /\ store' = update_session_status(store, sid, status, "e", F)
    /\ trail' = Push(trail, [op |-> "update_status", session_id |-> sid,
                             status |-> status, include_logs |-> FALSE,
                             clean |-> F = {}])
    /\ sret' = NoneResult
    /\ ops' = ops + 1
    /\ StoreFrame

StoreGet(sid, include_logs, F) ==
    /\ ops < MaxOps
    /\ sret' = get_analysis_session_with_logs(store, sid, include_logs, F)
    /\ store' = AfterGet(store, include_logs)
    /\ trail' = Push(trail, [op |-> "get", session_id |-> sid,
                             status |-> "", include_logs |-> include_logs,
                             clean |-> F = {}])
    /\ ops' = ops + 1
    /\ StoreFrame

NextStore ==
    \/ \E sid \in SessionIds, F \in SUBSET (1..3) : StoreCreate(sid, F)
    \/ \E sid \in SessionIds,
          status \in {StatusRunning, StatusCompleted, StatusFailed},
          F \in SUBSET (2..4) : StoreUpdateStatus(sid, status, F)
    \/ \E sid \in SessionIds, il \in BOOLEAN, F \in SUBSET (1..2) :
          StoreGet(sid, il, F)

----------------------------------------------------------------------------
(* The /profiling endpoint (api/routes.py run_profiling, app.py            *)
(* run_profiling).  The response body is a generator: the server resumes   *)
(* it once per event, and closes it when the consumer has gone, which      *)
(* raises GeneratorExit at the yield where it is suspended.                *)

(* raw elements of the tableIds parameter, split at "," and newline        *)
(* "|t2|" stands for the id t2 written between backticks                   *)
RawTableIds == {" ", "bad id", "t1", "|t2|"}

IsBlank(x) == x = " "                              \* tid.strip() == ""

StripTicks(x) == IF x = "|t2|" THEN "t2" ELSE x    \* table_id.strip(backtick)

LegalTableId(x) == x \in {"t1", "t2"}       \* re.match(r'^[a-zA-Z0-9_\-\.]+$')

(* [tid.strip() for tid in ... if tid.strip()]                             *)
SplitIds(raw) == SelectSeq(raw, LAMBDA x : ~IsBlank(x))

RECURSIVE validate_table_ids(_)
validate_table_ids(table_ids) ==
    IF table_ids = << >> THEN << >>
    ELSE LET t == StripTicks(Head(table_ids))
             rest == validate_table_ids(Tail(table_ids))
         IN  IF IsBlank(Head(table_ids)) THEN rest
             ELSE IF LegalTableId(t) THEN <<t>> \o rest
             ELSE rest

(* request.args.get('tableIds', '').strip() is the empty string            *)
EmptyParam(raw) == raw = << >> \/ (Len(raw) = 1 /\ IsBlank(raw[1]))

RequestTableIds ==
    { << >>, <<" ">>, <<" ", "bad id">>, <<"t1">>, <<"|t2|", "t1">> }

Requests0 ==
    { [engine |-> e, project_id |-> p, raw_ids |-> r, module |-> m] :
        e \in BOOLEAN, p \in {"", "p1"}, r \in RequestTableIds,
        m \in {"api/routes.py", "app.py"} }

SectionKeys == <<"overview", "table_analysis", "relationships",
                 "business_questions", "recommendations">>

Ev(type, tag) == [type |-> type, tag |-> tag]

(* Variant: a failed section is reported with an event of type error.      *)
SectionFailureEvent_as_error == Ev("error", "section_error")

(* {'type': 'log', 'payload': {'message': f'{section_title} 생성 중 오류'}} *)
SectionFailureEvent == Ev("log", "section_error")

NoSession == [set |-> FALSE, id |-> 0]

NoMarks == [completed |-> FALSE, failed |-> FALSE]

AtYield == pf_pc \in {"y_status0", "y_log0", "y_status1", "y_metadata",
                      "y_status2", "y_sec_status", "y_sec_log",
                      "y_sec_report", "y_sec_err", "y_status3", "y_status4",
                      "y_complete", "y_error"}

InitProfVars ==
    /\ req \in Requests0
    /\ pf_pc = "request"
    /\ events = << >>
    /\ session_id = NoSession
    /\ sections = EmptyDict
    /\ sec_i = 0
    /\ disconnected = FALSE
    /\ marks = NoMarks

IdleProfVars ==
    /\ req = [engine |-> FALSE, project_id |-> "", raw_ids |-> << >>,
              module |-> "api/routes.py"]
    /\ pf_pc = "request"
    /\ events = << >>
    /\ session_id = NoSession
    /\ sections = EmptyDict
    /\ sec_i = 0
    /\ disconnected = FALSE
    /\ marks = NoMarks

ValidatedIds == validate_table_ids(SplitIds(req.raw_ids))

(* run_profiling: the checks made before the generator is built            *)
RunProfiling ==
    /\ pf_pc = "request"
    /\ pf_pc' = IF ~req.engine THEN "egen_no_engine"
                ELSE IF req.project_id = "" \/ EmptyParam(req.raw_ids)
                THEN "egen_missing_params"
                ELSE IF ValidatedIds = << >> THEN "egen_no_tables"
                ELSE "gen_new"
    /\ UNCHANGED <<events, session_id, sections, sec_i, disconnected, marks,
                   req, store, cached_schemas>>
    /\ ProfFrame

(* error_generator: its single event                                       *)
ErrorGenerator ==
    /\ pf_pc \in {"egen_no_engine", "egen_missing_params", "egen_no_tables"}
    /\ events' = Append(events, Ev("error", pf_pc))
    /\ pf_pc' = "y_error"
    /\ UNCHANGED <<session_id, sections, sec_i, disconnected, marks, req,
                   store, cached_schemas>>
    /\ ProfFrame

(* except Exception as e: mark the session failed, then yield error        *)
ExceptBranch(db, F) ==
    /\ store' = IF session_id.set
                THEN update_session_status(db, session_id.id, StatusFailed,
                                           "e", F)
                ELSE db
    /\ marks' = [marks EXCEPT !.failed = @ \/ session_id.set]
    /\ events' = Append(events, Ev("error", "exception"))
    /\ pf_pc' = "y_error"

(* session_data, create_analysis_session, first status event               *)
PfStart(F) ==
    /\ pf_pc = "gen_new"
    /\ LET id == MintSessionId(store.now)
           data == SessionData(id, req.project_id)
       IN  IF create_raises(store, F)
           THEN /\ ExceptBranch(create_analysis_session(store, data, F), {})
                /\ UNCHANGED session_id
           ELSE /\ store' = create_analysis_session(store, data, F)
                /\ session_id' = [set |-> TRUE, id |-> id]
                /\ events' = Append(events, Ev("status", "step0"))
                /\ pf_pc' = "y_status0"
                /\ UNCHANGED marks
    /\ UNCHANGED <<sections, sec_i, disconnected, req, cached_schemas>>
    /\ ProfFrame

PfLogStart ==
    /\ pf_pc = "y_status0"
    /\ events' = Append(events, Ev("log", "tables"))
    /\ pf_pc' = "y_log0"
    /\ UNCHANGED <<session_id, sections, sec_i, disconnected, marks, req,
                   store, cached_schemas>>
    /\ ProfFrame

(* extract_metadata keeps a failing table as an error entry                *)
ExtractedMetadata(ids, failing) ==
    [tables |-> [i \in DOMAIN ids |->
                    DictItem(ids[i], IF ids[i] \in failing
                                     THEN TableErr ELSE TableOk)],
     summary |-> Summary0,
     extracted_at |-> "e1"]

(* extract_metadata, register_extracted_metadata, status step 1            *)
PfExtract(failing) ==
    /\ pf_pc = "y_log0"
    /\ cached_schemas' = register_schema(cached_schemas, req.project_id,
                              ExtractedMetadata(ValidatedIds, failing))
    /\ events' = Append(events, Ev("status", "step1"))
    /\ pf_pc' = "y_status1"
    /\ UNCHANGED <<session_id, sections, sec_i, disconnected, marks, req,
                   store>>
    /\ ProfFrame

PfMetadata ==
    /\ pf_pc = "y_status1"
    /\ events' = Append(events, Ev("metadata", "metadata"))
    /\ pf_pc' = "y_metadata"
    /\ UNCHANGED <<session_id, sections, sec_i, disconnected, marks, req,
                   store, cached_schemas>>
    /\ ProfFrame

PfStatus2 ==
    /\ pf_pc = "y_metadata"
    /\ events' = Append(events, Ev("status", "step2"))
    /\ pf_pc' = "y_status2"
    /\ UNCHANGED <<session_id, sections, sec_i, disconnected, marks, req,
                   store, cached_schemas>>
    /\ ProfFrame

(* the event that opens a section: api/routes.py yields a status and then  *)
(* a log, app.py yields the log only                                       *)
SectionOpening ==
    IF req.module = "api/routes.py"
    THEN [ev |-> Ev("status", "section"), pc |-> "y_sec_status"]
    ELSE [ev |-> Ev("log", "section"), pc |-> "y_sec_log"]

(* prompt and metadata_summary are built, the section loop is entered; an  *)
(* exception raised here (serialising the metadata) reaches the outer      *)
(* handler                                                                 *)
PfSectionsBegin(raises, F) ==
    /\ pf_pc = "y_status2"
    /\ IF raises
       THEN /\ ExceptBranch(store, F)
            /\ UNCHANGED sec_i
       ELSE /\ sec_i' = 1
            /\ events' = Append(events, SectionOpening.ev)
            /\ pf_pc' = SectionOpening.pc
            /\ UNCHANGED <<store, marks>>
    /\ UNCHANGED <<session_id, sections, disconnected, req, cached_schemas>>
    /\ ProfFrame

PfSectionLog ==
    /\ pf_pc = "y_sec_status"
    /\ events' = Append(events, Ev("log", "section"))
    /\ pf_pc' = "y_sec_log"
    /\ UNCHANGED <<session_id, sections, sec_i, disconnected, marks, req,
                   store, cached_schemas>>
    /\ ProfFrame

(* anthropic_client.messages.create inside the inner try                   *)
PfSectionCall(ok) ==
    /\ pf_pc = "y_sec_log"
    /\ IF ok
       THEN /\ sections' = Append(sections,
                                  DictItem(SectionKeys[sec_i], "content"))
            /\ events' = Append(events, Ev("report_section", SectionKeys[sec_i]))
            /\ pf_pc' = "y_sec_report"
       ELSE /\ events' = Append(events, SectionFailureEvent)
            /\ pf_pc' = "y_sec_err"
            /\ UNCHANGED sections
    /\ UNCHANGED <<session_id, sec_i, disconnected, marks, req, store,
                   cached_schemas>>
    /\ ProfFrame

(* Variant: a failed section leaves no entry in the report.               *)
RecordFailureSkipped(report_sections, section_key) == report_sections

(* profiling_report["sections"][section_key] = failure text, in the        *)
(* except clause of the section's try                                      *)
RecordFailure(report_sections, section_key) ==
    Append(report_sections, DictItem(section_key, "failed"))

(* end of one loop iteration: next section, or the report is assembled     *)
PfSectionNext ==
    /\ pf_pc \in {"y_sec_report", "y_sec_err"}
    /\ sections' = IF pf_pc = "y_sec_err"
                   THEN RecordFailure(sections, SectionKeys[sec_i])
                   ELSE sections
    /\ IF sec_i < Len(SectionKeys)
       THEN /\ sec_i' = sec_i + 1
            /\ events' = Append(events, SectionOpening.ev)
            /\ pf_pc' = SectionOpening.pc
       ELSE /\ events' = Append(events, Ev("status", "step3"))
            /\ pf_pc' = "y_status3"
            /\ UNCHANGED sec_i
    /\ UNCHANGED <<session_id, disconnected, marks, req, store,
                   cached_schemas>>
    /\ ProfFrame

(* save_analysis_result, update_session_status("완료"), status step 4      *)
PfSave(F1, F2) ==
    /\ pf_pc = "y_status3"
    /\ store' = update_session_status(
                    save_analysis_result(store, session_id.id, sections, F1),
                    session_id.id, StatusCompleted, "", F2)
    /\ marks' = [marks EXCEPT !.completed = TRUE]
    /\ events' = Append(events, Ev("status", "step4"))
    /\ pf_pc' = "y_status4"
    /\ UNCHANGED <<session_id, sections, sec_i, disconnected, req,
                   cached_schemas>>
    /\ ProfFrame

PfComplete ==
    /\ pf_pc = "y_status4"
    /\ events' = Append(events, Ev("profiling_complete", "report"))
    /\ pf_pc' = "y_complete"
    /\ UNCHANGED <<session_id, sections, sec_i, disconnected, marks, req,
                   store, cached_schemas>>
    /\ ProfFrame

(* resumed after its last yield the generator returns                      *)
PfFinish ==
    /\ pf_pc \in {"y_complete", "y_error"}
    /\ pf_pc' = "done"
    /\ UNCHANGED <<events, session_id, sections, sec_i, disconnected, marks,
                   req, store, cached_schemas>>
    /\ ProfFrame

(* the consumer goes away: the server closes the generator; GeneratorExit  *)
(* is no Exception, so neither handler runs                                *)
Disconnect ==
    /\ AtYield \/ pf_pc \in {"gen_new", "egen_no_engine",
                              "egen_missing_params", "egen_no_tables"}
    /\ pf_pc' = "closed"
    /\ disconnected' = TRUE
    /\ UNCHANGED <<events, session_id, sections, sec_i, marks, req, store,
                   cached_schemas>>
    /\ ProfFrame

OneOrNone(S) == {{}} \cup { {x} : x \in S }

NextProfiling ==
    \/ RunProfiling
    \/ ErrorGenerator
    \/ \E F \in SUBSET (1..3) : PfStart(F)
    \/ PfLogStart
    \/ \E failing \in SUBSET {"t1", "t2"} : PfExtract(failing)
    \/ PfMetadata
    \/ PfStatus2
    \/ \E raises \in BOOLEAN, F \in OneOrNone(2..4) : PfSectionsBegin(raises, F)
    \/ PfSectionLog
    \/ \E ok \in BOOLEAN : PfSectionCall(ok)
    \/ PfSectionNext
    \/ \E F1 \in OneOrNone(1..3), F2 \in OneOrNone(2..4) : PfSave(F1, F2)
    \/ PfComplete
    \/ PfFinish
    \/ Disconnect

----------------------------------------------------------------------------
(* IntegratedAnalyzer.execute_bigquery (core/analyzer.py).  The warehouse  *)
(* client may raise when the statement is submitted, when the result is    *)
(* awaited and while the rows are read.                                    *)

MaxRows == 3

ClientErrors == {"BadRequest", "Timeout"}

(* values of a result row by their nature                                  *)
DateLike(v) == v \in {"datetime", "date"}

(* value.isoformat() for datetime values and values that have isoformat    *)
ConvertValue(v) == IF DateLike(v) THEN "iso_text" ELSE v

(* rows as the client hands them over: Row objects with keys()/values(),   *)
(* objects dict() accepts, and objects whose conversion raises             *)
ResultRows ==
    { [shape |-> "Row", values |-> <<"int", "datetime">>],
      [shape |-> "Row", values |-> <<"str", "none">>],
      [shape |-> "mapping", values |-> <<"date">>],
      [shape |-> "broken", values |-> << >>] }

ConvertRow(row) ==
    IF row.shape = "broken"
    THEN [failed |-> TRUE, values |-> << >>]
    ELSE [failed |-> FALSE,
          values |-> [i \in DOMAIN row.values |-> ConvertValue(row.values[i])]]

NoResult == [returned |-> FALSE, raised |-> FALSE, success |-> FALSE,
             error |-> "", data |-> << >>, error_type |-> "",
             row_count |-> 0, job_stats |-> "absent"]

(* Variant: only the client's BadRequest is caught.                        *)
execution_failure_bad_request_only(e) ==
    IF e = "BadRequest"
    THEN [NoResult EXCEPT !.returned = TRUE, !.error = e,
                          !.error_type = "execution_error"]
    ELSE [NoResult EXCEPT !.raised = TRUE, !.error = e]

(* except Exception as e: return {"success": False, "error": str(e), ...}  *)
execution_failure(e) ==
    [NoResult EXCEPT !.returned = TRUE, !.error = e,
                     !.error_type = "execution_error"]

(* return {"success": True, "data": rows, "row_count": len(rows), ...}     *)
execution_success(rows, stats_failed) ==
    [NoResult EXCEPT !.returned = TRUE, !.success = TRUE, !.data = rows,
                     !.row_count = Len(rows),
                     !.job_stats = IF stats_failed THEN "all_none" ELSE "stats"]

InitExecVars ==
    /\ ex_pc = "start"
    /\ ex_rows = << >>
    /\ ex_fetched = 0
    /\ ex_result = NoResult

(* query_job = self.bigquery_client.query(sql_query)                       *)
ExQuery(outcome) ==
    /\ ex_pc = "start"
    /\ IF outcome \in ClientErrors
       THEN ex_pc' = "ended" /\ ex_result' = execution_failure(outcome)
       ELSE ex_pc' = "job" /\ UNCHANGED ex_result
    /\ UNCHANGED <<ex_rows, ex_fetched>>
    /\ ExecFrame

(* results = query_job.result()                                            *)
ExResult(outcome) ==
    /\ ex_pc = "job"
    /\ IF outcome \in ClientErrors
       THEN ex_pc' = "ended" /\ ex_result' = execution_failure(outcome)
       ELSE ex_pc' = "rows" /\ UNCHANGED ex_result
    /\ UNCHANGED <<ex_rows, ex_fetched>>
    /\ ExecFrame

(* one iteration of "for row in results"                                   *)
ExRow(row) ==
    /\ ex_pc = "rows"
    /\ ex_fetched < MaxRows
    /\ ex_rows' = Append(ex_rows, ConvertRow(row))
    /\ ex_fetched' = ex_fetched + 1
    /\ UNCHANGED <<ex_pc, ex_result>>
    /\ ExecFrame

(* reading the next page of rows raises                                    *)
ExRowsFail(e) ==
    /\ ex_pc = "rows"
    /\ ex_pc' = "ended"
    /\ ex_result' = execution_failure(e)
    /\ UNCHANGED <<ex_rows, ex_fetched>>
    /\ ExecFrame

(* the rows are exhausted: job_stats is collected and the result returned  *)
ExReturn(stats_failed) ==
    /\ ex_pc = "rows"
    /\ ex_pc' = "ended"
    /\ ex_result' = execution_success(ex_rows, stats_failed)
    /\ UNCHANGED <<ex_rows, ex_fetched>>
    /\ ExecFrame

NextExec ==
    \/ \E o \in ClientErrors \cup {"ok"} : ExQuery(o)
    \/ \E o \in ClientErrors \cup {"ok"} : ExResult(o)
    \/ \E row \in ResultRows : ExRow(row)
    \/ \E e \in ClientErrors : ExRowsFail(e)
    \/ \E sf \in BOOLEAN : ExReturn(sf)

----------------------------------------------------------------------------
(* IntegratedAnalyzer.generate_analysis_report and generate_html_report    *)
(* (core/analyzer.py).  A response of the text-generation service is       *)
(* either an error or a text; for an HTML request the text is a document,  *)
(* bare or wrapped in a fenced block, described by the markers that        *)
(* _validate_html_quality looks for.                                       *)

max_attempts == 2

QualityThreshold == 70

FallbackScore == 60

PenaltyDoctype == 20

PenaltyChartCdn == 20

PenaltyNewChart == 15

PenaltyStyle == 15

DocStarts == {"doctype", "html", "other"}

HtmlDocs ==
    [kind : {"generated"}, start : DocStarts, chartjs : BOOLEAN,
     cdn : BOOLEAN, new_chart : BOOLEAN, style : BOOLEAN]

NoHtml == [kind |-> "none", start |-> "other", chartjs |-> FALSE,
           cdn |-> FALSE, new_chart |-> FALSE, style |-> FALSE]

(* _generate_fallback_html: a fixed template with doctype and <style>,     *)
(* no chart                                                                *)
generate_fallback_html ==
    [kind |-> "template", start |-> "doctype", chartjs |-> FALSE,
     cdn |-> FALSE, new_chart |-> FALSE, style |-> TRUE]

(* the text is bare, or sits in a block fenced with ```html, with a bare   *)
(* ``` or with ``` followed by another language tag                        *)
Wraps == {"none", "html_fence", "fence", "tagged_fence"}

ServiceError == [failed |-> TRUE, wrap |-> "none", doc |-> NoHtml]

HtmlResponses ==
    {ServiceError} \cup [failed : {FALSE}, wrap : Wraps, doc : HtmlDocs]

(* how the text handed to the clean-up step starts                         *)
RawStart(resp) == IF resp.wrap = "none" THEN resp.doc.start ELSE "other"

(* the "HTML 정리" step: a text that starts neither with the doctype nor   *)
(* with <html and holds a fenced block is replaced by what follows the     *)
(* opening fence, so a language tag other than html stays in front         *)
CleanHtml(resp) ==
    IF RawStart(resp) \in {"doctype", "html"} THEN resp.doc
    ELSE IF resp.wrap \in {"html_fence", "fence"} THEN resp.doc
    ELSE IF resp.wrap = "tagged_fence"
    THEN [resp.doc EXCEPT !.start = "other"]
    ELSE resp.doc

Penalty(applies, amount) == IF applies THEN amount ELSE 0

Max(a, b) == IF a >= b THEN a ELSE b

(* Variant: a missing <style> costs 10.                                    *)
validate_html_quality_light_style(html) ==
    Max(0, 100 - Penalty(html.start # "doctype", PenaltyDoctype)
               - Penalty(html.chartjs /\ ~html.cdn, PenaltyChartCdn)
               - Penalty(~html.new_chart, PenaltyNewChart)
               - Penalty(~html.style, 10))

validate_html_quality(html) ==
    Max(0, 100 - Penalty(html.start # "doctype", PenaltyDoctype)
               - Penalty(html.chartjs /\ ~html.cdn, PenaltyChartCdn)
               - Penalty(~html.new_chart, PenaltyNewChart)
               - Penalty(~html.style, PenaltyStyle))

(* Variant: only a score above the threshold is accepted.                  *)
quality_accepted_strict(score) == score > QualityThreshold

(* if quality_score >= 70                                                  *)
quality_accepted(score) == score >= QualityThreshold

(* score of one attempt; an attempt that raised has none                   *)
AttemptScore(resp) ==
    IF resp.failed THEN -1 ELSE validate_html_quality(CleanHtml(resp))

AttemptAccepted(resp) ==
    ~resp.failed /\ quality_accepted(validate_html_quality(CleanHtml(resp)))

NoReportResult ==
    [status |-> "none", report |-> "", chart_config |-> "null",
     data_summary |-> "null", insights |-> << >>, html |-> NoHtml,
     quality_score |-> 0, attempts |-> 0, fallback |-> FALSE, keys |-> {}]

(* the keys of the dict generate_analysis_report returns                   *)
EmptyRowsKeys == {"report", "chart_config", "data_summary", "insights"}

ReportKeys == EmptyRowsKeys \cup {"data_analysis"}

HtmlKeys == {"html_content", "quality_score", "attempts", "fallback"}

ClientMissing == [NoReportResult EXCEPT !.status = "raised",
                                        !.report = "client_missing"]

NothingToAnalyze == [NoReportResult EXCEPT !.status = "returned",
                                           !.report = "nothing_to_analyze",
                                           !.keys = EmptyRowsKeys]

(* the insights generate_summary_insights derives from the profile         *)
SummaryInsights == <<"row_count_insight">>

(* Variant: the narrative is requested also for an empty result set.       *)
generate_analysis_report_always_asks(client, rows, outcome) ==
    IF ~client
    THEN [result |-> ClientMissing, calls |-> << >>]
    ELSE IF outcome.failed
    THEN [result |-> [NoReportResult EXCEPT !.status = "raised",
                                            !.report = "report_error"],
          calls |-> <<outcome>>]
    ELSE [result |-> [NoReportResult EXCEPT
                        !.status = "returned", !.report = "narrative",
                        !.chart_config = "suggested",
                        !.data_summary = "summary",
                        !.insights = SummaryInsights,
                        !.keys = ReportKeys],
          calls |-> <<outcome>>]

(* generate_analysis_report; rows is the number of rows passed, outcome    *)
(* the response of the text-generation service if it is asked              *)
generate_analysis_report(client, rows, outcome) ==
    IF ~client
    THEN [result |-> ClientMissing, calls |-> << >>]
    ELSE IF rows = 0
    THEN [result |-> NothingToAnalyze, calls |-> << >>]
    ELSE IF outcome.failed
    THEN [result |-> [NoReportResult EXCEPT !.status = "raised",
                                            !.report = "report_error"],
          calls |-> <<outcome>>]
    ELSE [result |-> [NoReportResult EXCEPT
                        !.status = "returned", !.report = "narrative",
                        !.chart_config = "suggested",
                        !.data_summary = "summary",
                        !.insights = SummaryInsights,
                        !.keys = ReportKeys],
          calls |-> <<outcome>>]

HtmlFallback(attempts) ==
    [NoReportResult EXCEPT !.status = "returned",
                           !.html = generate_fallback_html,
                           !.quality_score = FallbackScore,
                           !.attempts = attempts,
                           !.fallback = TRUE,
                           !.keys = HtmlKeys]

HtmlAccepted(resp, attempts) ==
    [NoReportResult EXCEPT !.status = "returned",
                           !.html = CleanHtml(resp),
                           !.quality_score = AttemptScore(resp),
                           !.attempts = attempts,
                           !.keys = HtmlKeys]

ReportMethods == {"generate_analysis_report", "generate_html_report"}

ReportInputs ==
    [method : ReportMethods, client : BOOLEAN, rows : 0..MaxRows]

InitReportVars ==
    /\ rp_in \in ReportInputs
    /\ rp_pc = "entry"
    /\ rp_calls = << >>
    /\ rp_result = NoReportResult

IdleReportVars ==
    /\ rp_in = [method |-> "generate_analysis_report", client |-> FALSE,
                rows |-> 0]
    /\ rp_pc = "entry"
    /\ rp_calls = << >>
    /\ rp_result = NoReportResult

(* generate_analysis_report makes at most one call and returns or raises   *)
GenerateAnalysisReport(outcome) ==
    /\ rp_pc = "entry"
    /\ rp_in.method = "generate_analysis_report"
    /\ LET r == generate_analysis_report(rp_in.client, rp_in.rows, outcome)
       IN  /\ rp_result' = r.result
           /\ rp_calls' = r.calls
    /\ rp_pc' = "ended"
    /\ UNCHANGED rp_in
    /\ ReportFrame

(* generate_html_report up to its first call                               *)
HtmlEnter ==
    /\ rp_pc = "entry"
    /\ rp_in.method = "generate_html_report"
    /\ IF ~rp_in.client
       THEN rp_pc' = "ended" /\ rp_result' = ClientMissing
       ELSE IF rp_in.rows = 0
       THEN rp_pc' = "ended" /\ rp_result' = HtmlFallback(1)
       ELSE rp_pc' = "attempt" /\ UNCHANGED rp_result
    /\ UNCHANGED <<rp_in, rp_calls>>
    /\ ReportFrame

(* one pass of "for attempt in range(max_attempts)": the call, the         *)
(* clean-up, the validation; after the last pass the fallback is returned  *)
HtmlAttempt(resp) ==
    /\ rp_pc = "attempt"
    /\ Len(rp_calls) < max_attempts
    /\ rp_calls' = Append(rp_calls, resp)
    /\ IF AttemptAccepted(resp)
       THEN rp_pc' = "ended" /\ rp_result' = HtmlAccepted(resp, Len(rp_calls'))
       ELSE IF Len(rp_calls') = max_attempts
       THEN rp_pc' = "ended" /\ rp_result' = HtmlFallback(max_attempts)
       ELSE UNCHANGED <<rp_pc, rp_result>>
    /\ UNCHANGED rp_in
    /\ ReportFrame

NarrativeResponses ==
    {ServiceError, [failed |-> FALSE, wrap |-> "none", doc |-> NoHtml]}

NextReport ==
    \/ \E o \in NarrativeResponses : GenerateAnalysisReport(o)
    \/ HtmlEnter
    \/ \E resp \in HtmlResponses : HtmlAttempt(resp)

----------------------------------------------------------------------------
IdleDataVars == da_in = 0 /\ da_result = 0

IdleHandlerVars ==
    hd_req = 0 /\ hd_pc = "idle" /\ hd_calls = << >> /\ hd_resp = 0

IdleOtherVars == IdleReportVars /\ IdleDataVars /\ IdleHandlerVars

IdleChartVars == ch_in = 0 /\ ch_result = 0

IdleSqlVars == sq_in = 0 /\ sq_result = 0

IdleRelVars == rl_in = 0 /\ rl_result = 0

IdleDeleteVars ==
    dl_logs = 0 /\ dl_session = FALSE /\ dl_pc = "idle" /\ dl_batch = 0
    /\ dl_ret = 0

IdleRunVars == runs = 0

(* every variable of the later sections idle, those of section f excepted  *)
IdleExt(f) ==
    /\ IF f = "chart" THEN TRUE ELSE IdleChartVars
    /\ IF f = "sql" THEN TRUE ELSE IdleSqlVars
    /\ IF f = "rel" THEN TRUE ELSE IdleRelVars
    /\ IF f = "delete" THEN TRUE ELSE IdleDeleteVars
    /\ IF f = "runs" THEN TRUE ELSE IdleRunVars

IdleExtVars == IdleExt("none")

----------------------------------------------------------------------------
(* analyze_data_structure (utils/data_utils.py).                           *)
(*                                                                         *)
(* Cell values are given by their Python type: numbers hold thousandths    *)
(* (v = 2500 is 2.5), "bigint" is an int too large for float(), strings    *)
(* hold their length, "list" is an unhashable value, "datetime" and        *)
(* "date" hold a day number and cannot be compared with each other.        *)

MaxDataRows == 2

Val(k, v) == [k |-> k, v |-> v]

NoneVal == Val("none", 0)

ValuesA ==
    { NoneVal, Val("num", 1), Val("num", 6), Val("num", 2500),
      Val("bigint", 0), Val("str", 0), Val("str", 1), Val("list", 0),
      Val("datetime", 1), Val("date", 2) }

ValuesB == { NoneVal, Val("num", 1000), Val("str", 1) }

(* a result row: a dict of cells, or something that is not a dict          *)
NotADict == [is_dict |-> FALSE, cells |-> EmptyDict]

DataRows ==
    { [is_dict |-> TRUE, cells |-> <<DictItem("a", a), DictItem("b", b)>>] :
          a \in ValuesA, b \in ValuesB }
    \cup { [is_dict |-> TRUE, cells |-> <<DictItem("a", a)>>] : a \in ValuesA }
    \cup { NotADict }

RECURSIVE SeqsUpTo(_, _)
SeqsUpTo(S, n) ==
    IF n = 0 THEN { << >> }
    ELSE LET shorter == SeqsUpTo(S, n - 1)
         IN  shorter \cup { Append(q, x) : q \in shorter, x \in S }

(* the argument: a list of rows, or a value of another type; "zero" is a   *)
(* falsy scalar, "scalar" a truthy one without len(), "dict", "str" and    *)
(* "tuple" are non-empty containers that are not lists                     *)
NonLists == {"None", "zero", "scalar", "dict", "str", "tuple"}

DataInputs ==
    { [shape |-> "list", rows |-> r] : r \in SeqsUpTo(DataRows, MaxDataRows) }
    \cup { [shape |-> sh, rows |-> << >>] : sh \in NonLists }

Falsy(data) ==
    \/ data.shape \in {"None", "zero"}
    \/ data.shape = "list" /\ data.rows = << >>

HasLen(data) == data.shape \in {"list", "dict", "str", "tuple"}

IsNumber(x) == x.k \in {"num", "bigint"}

IsDateLike(x) == x.k \in {"datetime", "date"}

(* round(x, n) applied to the fraction num/den, the result counted in      *)
(* units of 10^-n; a tie goes to the even neighbour                        *)
RoundDiv(num, den) ==
    LET q == num \div den
        r == num % den
    IN  IF 2 * r < den THEN q
        ELSE IF 2 * r > den THEN q + 1
        ELSE IF q % 2 = 0 THEN q ELSE q + 1

RECURSIVE SumSeq(_)
SumSeq(q) == IF q = << >> THEN 0 ELSE Head(q) + SumSeq(Tail(q))

RECURSIVE Sorted(_)
Sorted(q) ==
    IF q = << >> THEN << >>
    ELSE LET m == CHOOSE k \in DOMAIN q : \A j \in DOMAIN q : q[k] <= q[j]
         IN  <<q[m]>> \o
             Sorted([j \in 1..(Len(q) - 1) |->
                         IF j < m THEN q[j] ELSE q[j + 1]])

(* the non-null values of column col: rows that are no dict or lack the    *)
(* column are skipped                                                      *)
RECURSIVE ColumnValues(_, _)
ColumnValues(rows, col) ==
    IF rows = << >> THEN << >>
    ELSE LET row == Head(rows)
             rest == ColumnValues(Tail(rows), col)
         IN  IF row.is_dict /\ DictHas(row.cells, col)
                /\ row.cells[DictGet(row.cells, col)].info # NoneVal
             THEN <<row.cells[DictGet(row.cells, col)].info>> \o rest
             ELSE rest

NoStats == [has |-> FALSE, min |-> 0, max |-> 0, mean |-> 0, median |-> 0]

ColAnalysis(type, values, total) ==
    [type |-> type,
     non_null_count |-> Len(values),
     null_count |-> total - Len(values),
     completeness |-> RoundDiv(Len(values) * 1000, total),
     stats |-> NoStats,
     outliers |-> 0,
     data_quality_issues |-> << >>,
     consistency_score |-> 1000]

Branch(raised, col_analysis) == [raised |-> raised, col |-> col_analysis]

(* float(v) for v in values: an int beyond the float range raises          *)
FloatRaises(values) == \E i \in DOMAIN values : values[i].k = "bigint"

(* min, max in thousandths; mean and median rounded, in hundredths         *)
NumericStats(values) ==
    LET numeric_values ==
            Sorted([i \in DOMAIN SelectSeq(values, IsNumber) |->
                         SelectSeq(values, IsNumber)[i].v])
        n == Len(numeric_values)
    IN  [has |-> TRUE,
         min |-> numeric_values[1],
         max |-> numeric_values[n],
         mean |-> RoundDiv(SumSeq(numeric_values), 10 * n),
         median |-> RoundDiv(numeric_values[(n \div 2) + 1], 10)]

(* numeric_values: float(v) of the int and float values, in row order      *)
NumericValues(values) ==
    [i \in DOMAIN SelectSeq(values, IsNumber) |->
         SelectSeq(values, IsNumber)[i].v]

(* q1 = sorted[n // 4], q3 = sorted[3 n // 4] (lines 173-174)              *)
Quartiles(numeric_values) ==
    LET ordered == Sorted(numeric_values)
        n == Len(ordered)
    IN  [q1 |-> ordered[(n \div 4) + 1],
         q3 |-> ordered[((3 * n) \div 4) + 1]]

(* Variant: fences three interquartile ranges away.                        *)
OutlierValuesWideFence(numeric_values) ==
    LET q == Quartiles(numeric_values)
        iqr == q.q3 - q.q1
    IN  SelectSeq(numeric_values,
                  LAMBDA v : v < q.q1 - 3 * iqr \/ v > q.q3 + 3 * iqr)

(* the list "outliers" of line 176: values outside                         *)
(* [q1 - 1.5 iqr, q3 + 1.5 iqr]; both sides are doubled to stay integral   *)
OutlierValues(numeric_values) ==
    LET q == Quartiles(numeric_values)
        iqr == q.q3 - q.q1
    IN  SelectSeq(numeric_values,
                  LAMBDA v : \/ 2 * v < 2 * q.q1 - 3 * iqr
                             \/ 2 * v > 2 * q.q3 + 3 * iqr)

Outliers(values) == Len(OutlierValues(NumericValues(values)))

Min(a, b) == IF a <= b THEN a ELSE b

(* Variant: the deduction is not capped.                                   *)
OutlierPenaltyUncapped(out, n) == RoundDiv(out * 1000, n)

(* min(20, len(outliers) / len(numeric_values) * 100) of line 180, in      *)
(* tenths; the rounding is that of round(consistency_score, 1), line 239   *)
OutlierPenalty(out, n) == Min(200, RoundDiv(out * 1000, n))

(* Variant: the numeric branch lets the exception out.                     *)
numeric_branch_uncaught(base, values) ==
    IF FloatRaises(values)
    THEN Branch(TRUE, base)
    ELSE Branch(FALSE, [base EXCEPT !.stats = NumericStats(values)])

(* the branch for a first value that is int or float (lines 158-185)       *)
numeric_branch(base, values) ==
    IF FloatRaises(values)
    THEN Branch(FALSE, [base EXCEPT
                          !.data_quality_issues = Append(@, "numeric_failed"),
                          !.consistency_score = @ - 300])
    ELSE LET out == Outliers(values)
             n == Len(SelectSeq(values, IsNumber))
         IN  Branch(FALSE, [base EXCEPT
               !.stats = NumericStats(values),
               !.outliers = out,
               !.data_quality_issues =
                   IF out > 0 THEN Append(@, "outliers") ELSE @,
               !.consistency_score =
                   IF out > 0 THEN @ - OutlierPenalty(out, n) ELSE @])

(* set(values) raises on an unhashable value                               *)
SetRaises(values) == \E i \in DOMAIN values : values[i].k = "list"

EmptyStrings(values) ==
    Cardinality({ i \in DOMAIN values :
                    values[i].k = "str" /\ values[i].v = 0 })

(* the branch for a first value that is a str (lines 187-218)              *)
categorical_branch(base, values) ==
    IF SetRaises(values)
    THEN Branch(FALSE, [base EXCEPT !.consistency_score = @ - 200])
    ELSE LET e == EmptyStrings(values)
         IN  Branch(FALSE, [base EXCEPT
               !.data_quality_issues =
                   IF e > 0 THEN Append(@, "empty_strings") ELSE @,
               !.consistency_score =
                   IF e > 0 THEN @ - Min(150, RoundDiv(e * 1000, Len(values)))
                   ELSE @])

(* min(date_values) raises when a datetime meets a date                    *)
CompareRaises(values) ==
    /\ \E i \in DOMAIN values : values[i].k = "datetime"
    /\ \E i \in DOMAIN values : values[i].k = "date"

(* the branch for a first value with isoformat (lines 220-232)             *)
datetime_branch(base, values) ==
    IF CompareRaises(values)
    THEN Branch(FALSE, [base EXCEPT !.consistency_score = @ - 200])
    ELSE Branch(FALSE, base)

(* the branch for any other first value (lines 234-237)                    *)
mixed_branch(base) ==
    Branch(FALSE, [base EXCEPT
                     !.data_quality_issues = Append(@, "mixed_types"),
                     !.consistency_score = @ - 250])

(* lines 131-239 for one column                                            *)
analyze_column(rows, col) ==
    LET values == ColumnValues(rows, col)
        total == Len(rows)
    IN  IF values = << >>
        THEN Branch(FALSE, ColAnalysis("unknown", values, total))
        ELSE IF IsNumber(values[1])
        THEN numeric_branch(ColAnalysis("numeric", values, total), values)
        ELSE IF values[1].k = "str"
        THEN categorical_branch(ColAnalysis("categorical", values, total),
                                values)
        ELSE IF IsDateLike(values[1])
        THEN datetime_branch(ColAnalysis("datetime", values, total), values)
        ELSE mixed_branch(ColAnalysis("mixed", values, total))

ZeroQuality == [completeness |-> 0, consistency |-> 0, overall_score |-> 0]

NoProfile == [status |-> "none", row_count |-> 0, columns |-> EmptyDict,
              patterns |-> << >>, data_quality |-> ZeroQuality]

Profile(row_count, patterns) ==
    [NoProfile EXCEPT !.status = "returned", !.row_count = row_count,
                      !.patterns = patterns]

(* data[0].keys()                                                          *)
Keys(row) == [i \in DOMAIN row.cells |-> row.cells[i].id]

(* "for col in data[0].keys()" inside the outer try: an exception that     *)
(* leaves a column's analysis ends the loop and is noted in patterns       *)
RECURSIVE AnalyzeColumns(_, _, _)
AnalyzeColumns(rows, cols, acc) ==
    IF cols = << >> THEN acc
    ELSE LET b == analyze_column(rows, Head(cols))
             col_analysis ==
                 [b.col EXCEPT !.consistency_score = Max(0, @)]
         IN  IF b.raised
             THEN [acc EXCEPT !.patterns = Append(@, "analysis_error")]
             ELSE AnalyzeColumns(rows, Tail(cols),
                    [acc EXCEPT
                       !.columns = Append(@, DictItem(Head(cols), col_analysis)),
                       !.non_null = @ + col_analysis.non_null_count,
                       !.total_consistency =
                           @ + col_analysis.consistency_score])

(* lines 249-256                                                           *)
DataQuality(acc, total) ==
    LET num_columns == Len(acc.columns)
        completeness == RoundDiv(acc.non_null * 1000, total * num_columns)
        consistency == RoundDiv(acc.total_consistency, num_columns)
    IN  IF num_columns = 0 THEN ZeroQuality
        ELSE [completeness |-> completeness,
              consistency |-> consistency,
              overall_score |-> RoundDiv(completeness + consistency, 2)]

analyze_data_structure(data) ==
    IF Falsy(data) THEN Profile(0, << >>)
    ELSE IF ~HasLen(data) THEN [NoProfile EXCEPT !.status = "raised"]
    ELSE IF data.shape # "list" THEN Profile(0, <<"data_type_error">>)
    ELSE IF ~data.rows[1].is_dict
    THEN Profile(Len(data.rows), <<"data_structure_error">>)
    ELSE LET acc == AnalyzeColumns(data.rows, Keys(data.rows[1]),
                       [columns |-> EmptyDict, non_null |-> 0,
                        total_consistency |-> 0, patterns |-> << >>])
         IN  [status |-> "returned",
              row_count |-> Len(data.rows),
              columns |-> acc.columns,
              patterns |-> acc.patterns,
              data_quality |-> DataQuality(acc, Len(data.rows))]

InitDataVars ==
    /\ da_in \in DataInputs
    /\ da_result = NoProfile

AnalyzeDataStructure ==
    /\ da_result.status = "none"
    /\ da_result' = analyze_data_structure(da_in)
    /\ UNCHANGED da_in
    /\ DataFrame

(* single-column results whose cells are the numbers 1, 2, 3, 4 and 100    *)
MaxNumericRows == 6

NumericCells == {1000, 2000, 3000, 4000, 100000}

NumericRow(v) == [is_dict |-> TRUE, cells |-> <<DictItem("a", Val("num", v))>>]

NumericInputs ==
    { [shape |-> "list", rows |-> [i \in DOMAIN q |-> NumericRow(q[i])]] :
          q \in SeqsUpTo(NumericCells, MaxNumericRows) }

InitNumericVars ==
    /\ da_in \in DataInputs \cup NumericInputs
    /\ da_result = NoProfile

NextData == AnalyzeDataStructure

----------------------------------------------------------------------------
(* The /quick and /analyze handlers (api/routes.py quick_query,            *)
(* structured_analysis).  The engine, when there is one, holds both        *)
(* clients (app.py builds it only then).                                   *)

(* request.json: no body, a body without 'question', or a body with it     *)
Bodies == {"none", "no_question", "with_question"}

(* the question: blank, a text, or a JSON value that is not a string       *)
Questions == {"blank", "text", "number"}

(* table_ids arrives as a list or as one comma-separated text              *)
IdForms == {"list", "text"}

HandlerRequests ==
    [route : {"/quick", "/analyze"}, engine : BOOLEAN, body : Bodies,
     question : Questions, project_id : {"", "p1"},
     raw_ids : RequestTableIds, id_form : IdForms]

(* the table_ids the handler goes on with: /analyze splits a text and      *)
(* drops blank elements, /quick takes the value as it is                   *)
HandlerTableIds(r) ==
    IF r.route = "/analyze" /\ r.id_form = "text"
    THEN SplitIds(r.raw_ids)
    ELSE r.raw_ids

NoResponse == [sent |-> FALSE, code |-> 0, keys |-> {}, success |-> FALSE,
               error_type |-> ""]

(* jsonify({"success": False, "error": ...}), code                         *)
ErrorResponse(code) ==
    [sent |-> TRUE, code |-> code, keys |-> {"success", "error"},
     success |-> FALSE, error_type |-> ""]

(* the response built from a failed query_result                           *)
ExecutionErrorResponse(query_result) ==
    [sent |-> TRUE, code |-> 500,
     keys |-> {"success", "error", "generated_sql", "error_type"},
     success |-> FALSE, error_type |-> query_result.error_type]

SuccessResponse ==
    [sent |-> TRUE, code |-> 200,
     keys |-> {"success", "original_question", "generated_sql", "data",
               "row_count", "execution_stats"},
     success |-> TRUE, error_type |-> ""]

InitHandlerVars ==
    /\ hd_req \in HandlerRequests
    /\ hd_pc = "entry"
    /\ hd_calls = << >>
    /\ hd_resp = NoResponse

(* the checks made before natural_language_to_sql is called; a question    *)
(* that is no string makes .strip() raise, which the handler's except      *)
(* turns into a 500 response                                               *)
HandlerEnter ==
    /\ hd_pc = "entry"
    /\ LET reject(code) == hd_pc' = "ended" /\ hd_resp' = ErrorResponse(code)
       IN  IF ~hd_req.engine THEN reject(500)
           ELSE IF hd_req.body # "with_question" THEN reject(400)
           ELSE IF hd_req.question = "number" THEN reject(500)
           ELSE IF hd_req.question = "blank" THEN reject(400)
           ELSE IF hd_req.project_id = "" \/ HandlerTableIds(hd_req) = << >>
           THEN reject(400)
           ELSE hd_pc' = "sql" /\ UNCHANGED hd_resp
    /\ UNCHANGED <<hd_req, hd_calls>>
    /\ HandlerFrame

(* natural_language_to_sql: one call of the text-generation service; its   *)
(* failure is raised and answered by the handler's except                  *)
HandlerGenerateSql(ok) ==
    /\ hd_pc = "sql"
    /\ hd_calls' = Append(hd_calls, "text_generation")
    /\ IF ok
       THEN hd_pc' = "execute" /\ UNCHANGED hd_resp
       ELSE hd_pc' = "ended" /\ hd_resp' = ErrorResponse(500)
    /\ UNCHANGED hd_req
    /\ HandlerFrame

(* execute_bigquery and the response built from its result; /analyze goes  *)
(* on to the report when the query succeeded                               *)
HandlerExecute(query_result) ==
    /\ hd_pc = "execute"
    /\ hd_calls' = Append(hd_calls, "warehouse")
    /\ IF ~query_result.success
       THEN hd_pc' = "ended" /\ hd_resp' = ExecutionErrorResponse(query_result)
       ELSE IF hd_req.route = "/quick"
       THEN hd_pc' = "ended" /\ hd_resp' = SuccessResponse
       ELSE /\ hd_pc' = (IF query_result.row_count = 0
                         THEN "report_empty" ELSE "report")
            /\ UNCHANGED hd_resp
    /\ UNCHANGED hd_req
    /\ HandlerFrame

(* /analyze: generate_analysis_report and the final response; the result   *)
(* for no rows has no "data_analysis" key, so building the response        *)
(* raises KeyError, answered by the handler's except                       *)
HandlerReport(outcome) ==
    /\ hd_pc \in {"report", "report_empty"}
    /\ LET r == generate_analysis_report(
                    TRUE, IF hd_pc = "report" THEN 1 ELSE 0, outcome)
       IN  /\ hd_calls' = hd_calls \o
                  [i \in DOMAIN r.calls |-> "text_generation"]
           /\ hd_resp' = IF r.result.status = "returned"
                            /\ ReportKeys \subseteq r.result.keys
                         THEN [SuccessResponse EXCEPT
                                 !.keys = @ \cup {"mode", "analysis_report",
                                   "chart_config", "data_summary",
                                   "insights", "data_analysis"}]
                         ELSE ErrorResponse(500)
    /\ hd_pc' = "ended"
    /\ UNCHANGED hd_req
    /\ HandlerFrame

QueryResults ==
    { execution_failure(e) : e \in ClientErrors }
    \cup { execution_success(rows, FALSE) :
             rows \in { << >>, <<ConvertRow([shape |-> "mapping",
                                             values |-> <<"date">>])>> } }

NextHandlers ==
    \/ HandlerEnter
    \/ \E ok \in BOOLEAN : HandlerGenerateSql(ok)
    \/ \E qr \in QueryResults : HandlerExecute(qr)
    \/ \E o \in NarrativeResponses : HandlerReport(o)

----------------------------------------------------------------------------
(* suggest_chart_config (utils/data_utils.py).  Columns are named by their *)
(* position; a row holds one cell per column.                              *)

MaxChartCols == 4

ChartCells == { NoneVal, Val("num", 1000), Val("str", 1), Val("list", 0) }

ChartRows(n) == [1..n -> ChartCells]

(* data: no row, one row, or that row followed by a row of strings         *)
ChartInputs ==
    UNION { { [columns |-> [i \in 1..n |-> i], data |-> << >>] }
            \cup { [columns |-> [i \in 1..n |-> i], data |-> <<r>>] :
                     r \in ChartRows(n) }
            \cup { [columns |-> [i \in 1..n |-> i],
                    data |-> <<r, [i \in 1..n |-> Val("str", 1)]>>] :
                     r \in ChartRows(n) } : n \in 0..MaxChartCols }

NoChart == [type |-> "None", label_column |-> 0, value_column |-> 0,
            value_columns |-> << >>]

BarChart(col1, col2) ==
    [NoChart EXCEPT !.type = "bar", !.label_column = col1,
                    !.value_column = col2]

SeriesChart(label_col, value_cols) ==
    [NoChart EXCEPT
       !.type = (IF Len(value_cols) > 1 THEN "line" ELSE "bar"),
       !.label_column = label_col, !.value_columns = value_cols]

(* "x if x is not None else default"                                       *)
OrDefault(x, default) == IF x # NoneVal THEN x ELSE default

(* Variant: a missing first value is taken as it is.                       *)
suggest_chart_config_no_defaults(data, columns) ==
    IF data = << >> THEN NoChart
    ELSE IF Len(columns) = 1 THEN NoChart
    ELSE IF Len(columns) = 2
            /\ data[1][columns[2]].k = "num" /\ data[1][columns[1]].k = "str"
    THEN BarChart(columns[1], columns[2])
    ELSE IF Len(columns) >= 3
            /\ \A j \in 2..Len(columns) : data[1][columns[j]].k = "num"
    THEN SeriesChart(columns[1], Tail(columns))
    ELSE NoChart

suggest_chart_config(data, columns) ==
    IF data = << >> THEN NoChart
    ELSE IF Len(columns) = 1 THEN NoChart
    ELSE IF Len(columns) = 2
            /\ IsNumber(OrDefault(data[1][columns[2]], Val("num", 0)))
            /\ OrDefault(data[1][columns[1]], Val("str", 0)).k = "str"
    THEN BarChart(columns[1], columns[2])
    ELSE IF Len(columns) >= 3
            /\ \A j \in 2..Len(columns) :
                  data[1][columns[j]] = NoneVal \/ IsNumber(data[1][columns[j]])
    THEN SeriesChart(columns[1], Tail(columns))
    ELSE NoChart

(* the call has not returned yet                                           *)
ChartPending == [NoChart EXCEPT !.type = "pending"]

InitChartVars ==
    /\ ch_in \in ChartInputs
    /\ ch_result = ChartPending

SuggestChartConfig ==
    /\ ch_result = ChartPending
    /\ ch_result' = suggest_chart_config(ch_in.data, ch_in.columns)
    /\ UNCHANGED ch_in
    /\ ChartFrame

NextChart == SuggestChartConfig

----------------------------------------------------------------------------
(* IntegratedAnalyzer._clean_sql_query (core/analyzer.py).  The text is a  *)
(* sequence of lines; a line is given by its kind and by whether it ends   *)
(* with a semicolon.  "fence_sql" is the line ```sql, "fence" the line     *)
(* ```, "fence_tag" an opening fence with another tag (```SQL,             *)
(* ```bigquery), "tag" the tag text that follows the three backquotes,     *)
(* "comment" a line starting with -- that names no SQL keyword,            *)
(* "comment_kw" one that does.                                             *)

MaxLines == 4

Line(kind, semi) == [kind |-> kind, semi |-> semi]

SqlLines ==
    { Line(k, FALSE) : k \in {"fence_sql", "fence", "fence_tag", "sql",
                              "comment", "comment_kw", "blank", "prose"} }
    \cup { Line("sql", TRUE) }

SqlTexts == SeqsUpTo(SqlLines, MaxLines)

IsFence(l) == l.kind \in {"fence_sql", "fence", "fence_tag"}

(* index of the first line of q satisfying Test, 0 when there is none      *)
FirstIndex(q, Test(_)) ==
    IF \E i \in DOMAIN q : Test(q[i])
    THEN CHOOSE i \in DOMAIN q : Test(q[i]) /\ \A j \in 1..(i - 1) : ~Test(q[j])
    ELSE 0

(* text.split(marker)[0]: the lines before the first marker line           *)
BeforeFence(q) ==
    IF FirstIndex(q, IsFence) = 0 THEN q
    ELSE SubSeq(q, 1, FirstIndex(q, IsFence) - 1)

AfterLine(q, i) == SubSeq(q, i + 1, Len(q))

(* what follows the three backquotes of an opening fence on its own line   *)
FenceRest(l) == IF l.kind = "fence_tag" THEN <<Line("tag", FALSE)>> ELSE << >>

(* lines 146-154                                                           *)
strip_code_block(q) ==
    LET fences == { i \in DOMAIN q : IsFence(q[i]) }
        first == FirstIndex(q, IsFence)
        sql == FirstIndex(q, LAMBDA l : l.kind = "fence_sql")
    IN  IF sql # 0 THEN BeforeFence(AfterLine(q, sql))
        ELSE IF Cardinality(fences) >= 2
        THEN FenceRest(q[first]) \o BeforeFence(AfterLine(q, first))
        ELSE q

(* lines 160-170: blank lines and keyword-free comment lines are dropped   *)
KeepLine(l) == l.kind \notin {"blank", "comment"}

(* lines 175-177: ";" is appended unless the text ends with one; the       *)
(* empty text becomes the line ";"                                         *)
EndWithSemicolon(q) ==
    IF q = << >> THEN <<Line("empty", TRUE)>>
    ELSE [q EXCEPT ![Len(q)].semi = TRUE]

clean_sql_query(sql_query) ==
    EndWithSemicolon(SelectSeq(strip_code_block(sql_query), KeepLine))

SqlPending == <<Line("pending", FALSE)>>

InitSqlVars ==
    /\ sq_in \in SqlTexts
    /\ sq_result = SqlPending

CleanSqlQuery ==
    /\ sq_result = SqlPending
    /\ sq_result' = clean_sql_query(sq_in)
    /\ UNCHANGED sq_in
    /\ SqlFrame

NextSql == CleanSqlQuery

----------------------------------------------------------------------------
(* analyze_table_relationship (utils/bigquery_utils.py).  A field name is  *)
(* given as stem and tail (user + _id), numbered when it is one of the     *)
(* columns col1, col2, ... that only the second table has.                 *)

MaxFiller == 10

FieldName(stem, tail) == [stem |-> stem, tail |-> tail, n |-> 0]

Filler(k) == [stem |-> "col", tail |-> "", n |-> k]

SharedNames ==
    << FieldName("user", "_id"), FieldName("order", "_key"),
       FieldName("id", ""), FieldName("name", "") >>

Field(name, type) == [name |-> name, type |-> type]

(* the schema that gives SharedNames[i] the type types[i], "absent"        *)
(* leaving the field out, followed by fillers columns of its own           *)
Schema(types, fillers) ==
    SelectSeq([i \in DOMAIN SharedNames |-> Field(SharedNames[i], types[i])],
              LAMBDA f : f.type # "absent")
    \o [k \in 1..fillers |-> Field(Filler(k), "STRING")]

TableMeta(table_id, schema) == [table_id |-> table_id, schema |-> schema]

RelInputs ==
    { [table1 |-> TableMeta("t1", Schema(a, 0)),
       table2 |-> TableMeta("t2", Schema(b, f))] :
          a \in [DOMAIN SharedNames -> {"absent", "STRING", "INTEGER"}],
          b \in [DOMAIN SharedNames -> {"absent", "STRING"}],
          f \in 0..MaxFiller }

(* {f["name"]: f for f in schema}: the keys, and the type of a key         *)
FieldNames(table) == { table.schema[i].name : i \in DOMAIN table.schema }

FieldType(table, name) ==
    LET last == CHOOSE i \in DOMAIN table.schema :
                    /\ table.schema[i].name = name
                    /\ \A j \in DOMAIN table.schema :
                          table.schema[j].name = name => j <= i
    IN  table.schema[last].type

EndsWith(name, tail) == name.tail = tail

(* Variant: only the two suffixes mark a key.                              *)
JoinConfidenceSuffixOnly(name) ==
    IF EndsWith(name, "_id") \/ EndsWith(name, "_key") THEN "high"
    ELSE "medium"

(* lines 236-248, for a field of equal type in both tables                 *)
JoinConfidence(name) ==
    IF EndsWith(name, "_id") \/ EndsWith(name, "_key")
       \/ name = FieldName("id", "")
    THEN "high" ELSE "medium"

JoinKey(name, type) ==
    [field |-> name, type |-> type, confidence |-> JoinConfidence(name)]

NoRelationship ==
    [status |-> "None", table1 |-> "", table2 |-> "",
     relationship_strength |-> 0, common_fields |-> {},
     potential_join_keys |-> {}, suggested_join |-> FALSE]

(* relationship_strength is kept in tenths (round(..., 1));                *)
(* suggested_join tells whether _suggest_join_query returned a query       *)
analyze_table_relationship(table1, table2) ==
    LET common_fields == FieldNames(table1) \cap FieldNames(table2)
        total_fields == Cardinality(FieldNames(table1) \cup FieldNames(table2))
        potential_join_keys ==
            { JoinKey(name, FieldType(table1, name)) :
                name \in { c \in common_fields :
                             FieldType(table1, c) = FieldType(table2, c) } }
    IN  IF common_fields = {} THEN NoRelationship
        ELSE IF 100 * Cardinality(common_fields) > 10 * total_fields
                \/ potential_join_keys # {}
        THEN [status |-> "record",
              table1 |-> table1.table_id,
              table2 |-> table2.table_id,
              relationship_strength |->
                  RoundDiv(1000 * Cardinality(common_fields), total_fields),
              common_fields |-> common_fields,
              potential_join_keys |-> potential_join_keys,
              suggested_join |-> potential_join_keys # {}]
        ELSE NoRelationship

RelPending == [NoRelationship EXCEPT !.status = "pending"]

InitRelVars ==
    /\ rl_in \in RelInputs
    /\ rl_result = RelPending

AnalyzeTableRelationship ==
    /\ rl_result = RelPending
    /\ rl_result' = analyze_table_relationship(rl_in.table1, rl_in.table2)
    /\ UNCHANGED rl_in
    /\ RelFrame

NextRel == AnalyzeTableRelationship

----------------------------------------------------------------------------
(* FirestoreManager.delete_analysis_session (firestore_db.py).  The log    *)
(* documents of the session are counted; the write batch takes effect at   *)
(* commit only, so every stream() of the loop reads the same documents.    *)

PageLimit == 500

MaxLogs == 501

MaxPages == 2

(* position inside the call, whether self.db is set, and len(logs) of the  *)
(* page read last                                                          *)
DeleteAt(at, db, logs) == [at |-> at, db |-> db, logs |-> logs]

InitDeleteVars ==
    /\ dl_logs \in 0..MaxLogs
    /\ dl_session \in BOOLEAN
    /\ dl_pc \in { DeleteAt("entry", db, 0) : db \in BOOLEAN }
    /\ dl_batch = 0
    /\ dl_ret = FALSE

(* "return False" and "return True"                                        *)
DeleteReturns(value) ==
    /\ dl_pc' = [dl_pc EXCEPT !.at = "returned"]
    /\ dl_ret' = value

(* lines 383-394                                                           *)
DeleteEnter ==
    /\ dl_pc.at = "entry"
    /\ IF ~dl_pc.db
       THEN DeleteReturns(FALSE)
       ELSE dl_pc' = [dl_pc EXCEPT !.at = "stream"] /\ UNCHANGED dl_ret
    /\ UNCHANGED <<dl_logs, dl_session, dl_batch>>
    /\ DeleteFrame

(* logs = list(logs_query.stream()): at most PageLimit documents, always   *)
(* from the start of the collection; a failure of the store is caught by   *)
(* the except clause                                                       *)
DeleteStream(fails) ==
    /\ dl_pc.at = "stream"
    /\ IF fails
       THEN DeleteReturns(FALSE)
       ELSE /\ dl_pc' = [dl_pc EXCEPT !.at = "page",
                                      !.logs = Min(dl_logs, PageLimit)]
            /\ UNCHANGED dl_ret
    /\ UNCHANGED <<dl_logs, dl_session, dl_batch>>
    /\ DeleteFrame

(* lines 398-405: the page is added to the batch; the loop is left on an   *)
(* empty or a short page.  The size of the batch is counted up to          *)
(* MaxPages full pages.                                                    *)
DeletePage ==
    /\ dl_pc.at = "page"
    /\ IF dl_pc.logs = 0
       THEN /\ dl_pc' = [dl_pc EXCEPT !.at = "commit"]
            /\ UNCHANGED dl_batch
       ELSE /\ dl_batch' = Min(dl_batch + dl_pc.logs, MaxPages * PageLimit)
            /\ dl_pc' = [dl_pc EXCEPT
                           !.at = IF dl_pc.logs < PageLimit
                                  THEN "commit" ELSE "stream"]
    /\ UNCHANGED <<dl_logs, dl_session, dl_ret>>
    /\ DeleteFrame

(* lines 408-412: the session document joins the batch and the batch is    *)
(* committed as a whole                                                    *)
DeleteCommit(fails) ==
    /\ dl_pc.at = "commit"
    /\ IF fails
       THEN /\ DeleteReturns(FALSE)
            /\ UNCHANGED <<dl_logs, dl_session>>
       ELSE /\ dl_logs' = dl_logs - Min(dl_logs, dl_batch)
            /\ dl_session' = FALSE
            /\ DeleteReturns(TRUE)
    /\ UNCHANGED dl_batch
    /\ DeleteFrame

NextDelete ==
    \/ DeleteEnter
    \/ \E fails \in BOOLEAN : DeleteStream(fails)
    \/ DeletePage
    \/ \E fails \in BOOLEAN : DeleteCommit(fails)

----------------------------------------------------------------------------
(* Concurrent callers of the session store (firestore_db.py, and the start *)
(* of profiling_generator in api/routes.py).  Requests are served in       *)
(* parallel and share db_manager; a caller's steps are its reads of the    *)
(* clock and its round trips to the store.  A round trip takes time, a     *)
(* read of the clock takes less than one tick of it.                       *)

Callers == {1, 2}

MaxAdds == 2

LogTypes == {"result", "error"}

(* position, session, arguments and locals of one caller; ok and bad count *)
(* its add_log calls that returned a log id and that returned ""           *)
Caller(pc, left) ==
    [pc |-> pc, sid |-> 0, minted |-> FALSE, overwrote |-> FALSE,
     log_type |-> "", timestamp |-> 0, ok |-> 0, bad |-> 0, left |-> left,
     status_set |-> FALSE]

StoreWith(sessions) ==
    [present |-> TRUE, sessions |-> sessions, logs |-> NoEntries,
     now |-> 0, srv |-> 0]

(* add_log, lines 73-75: timestamp = datetime.now(), log_id                *)
LogClock(r, log_type) ==
    /\ runs[r].pc = "add_log"
    /\ runs' = [runs EXCEPT ![r].pc = "log_set",
                            ![r].log_type = log_type,
                            ![r].timestamp = store.now]
    /\ UNCHANGED store
    /\ RunFrame

(* where the caller goes on after add_log has returned                     *)
AfterAddLog(c) ==
    IF c.minted THEN "status"
    ELSE IF c.left > 1 THEN "add_log" ELSE "done"

(* add_log, lines 92-94: log_ref.set(log_data); an exception makes add_log *)
(* return ""                                                               *)
LogWrite(r, fails) ==
    /\ runs[r].pc = "log_set"
    /\ IF fails
       THEN /\ store' = Elapse(store)
            /\ runs' = [runs EXCEPT ![r].pc = AfterAddLog(runs[r]),
                                    ![r].bad = @ + 1,
                                    ![r].left = @ - 1]
       ELSE /\ store' = LogSetAt(store, runs[r].sid, runs[r].timestamp,
                                 runs[r].log_type, "message")
            /\ runs' = [runs EXCEPT ![r].pc = "log_update"]
    /\ RunFrame

(* add_log, lines 97-110: session_ref.update with Increment(1), then       *)
(* return log_id; an exception makes add_log return ""                     *)
LogUpdate(r, fails) ==
    /\ runs[r].pc = "log_update"
    /\ IF fails \/ ~Exists(store, runs[r].sid)
       THEN /\ store' = Elapse(store)
            /\ runs' = [runs EXCEPT ![r].pc = AfterAddLog(runs[r]),
                                    ![r].bad = @ + 1,
                                    ![r].left = @ - 1]
       ELSE /\ store' = [store EXCEPT
                           !.sessions[runs[r].sid].log_count = @ + 1,
                           !.sessions[runs[r].sid].latest_log_type =
                               runs[r].log_type,
                           !.sessions[runs[r].sid].error_count =
                               IF runs[r].log_type = "error" THEN @ + 1 ELSE @,
                           !.srv = @ + 1,
                           !.now = @ + 1]
            /\ runs' = [runs EXCEPT ![r].pc = AfterAddLog(runs[r]),
                                    ![r].ok = @ + 1,
                                    ![r].left = @ - 1]
    /\ RunFrame

(* callers that add logs to the stored session 0                           *)
InitLogsVars ==
    /\ store = StoreWith(DictSet(NoEntries, 0,
                                 NewSession(SessionData(0, "p1"))))
    /\ runs = [r \in Callers |-> Caller("add_log", MaxAdds)]
    /\ trail = <<NoOp, NoOp, NoOp>>
    /\ sret = NoneResult
    /\ ops = 0

NextLogs ==
    \E r \in Callers :
        \/ \E log_type \in LogTypes : LogClock(r, log_type)
        \/ \E fails \in BOOLEAN : LogWrite(r, fails)
        \/ \E fails \in BOOLEAN : LogUpdate(r, fails)

(* profiling_generator, line 191: "id": str(int(time.time() * 1000))       *)
RunMint(r) ==
    /\ runs[r].pc = "mint"
    /\ runs' = [runs EXCEPT ![r].pc = "create",
                            ![r].sid = MintSessionId(store.now),
                            ![r].minted = TRUE]
    /\ UNCHANGED store
    /\ RunFrame

(* create_analysis_session, lines 35-53: session_ref.set(...) creates the  *)
(* document or replaces the one stored under the id; a failure is          *)
(* re-raised and ends the run                                              *)
RunCreate(r, fails) ==
    /\ runs[r].pc = "create"
    /\ IF fails
       THEN /\ store' = Elapse(store)
            /\ runs' = [runs EXCEPT ![r].pc = "done"]
       ELSE /\ store' = [store EXCEPT
                           !.sessions = DictSet(@, runs[r].sid,
                               NewSession(SessionData(runs[r].sid, "p1"))),
                           !.srv = @ + 1,
                           !.now = @ + 1]
            /\ runs' = [runs EXCEPT ![r].pc = "add_log",
                                    ![r].overwrote = Exists(store, runs[r].sid)]
    /\ RunFrame

(* the wall clock advances while a run has not yet read it                 *)
RunWait(r) ==
    /\ runs[r].pc = "mint"
    /\ store.now < 2 * TicksPerMs
    /\ store' = Elapse(store)
    /\ UNCHANGED runs
    /\ RunFrame

(* update_session_status(session_id, "완료"), its final update             *)
RunStatus(r) ==
    /\ runs[r].pc = "status"
    /\ store' = IF Exists(store, runs[r].sid)
                THEN [store EXCEPT
                        !.sessions[runs[r].sid] =
                            StatusFields(@, StatusCompleted, ""),
                        !.srv = @ + 1,
                        !.now = @ + 1]
                ELSE Elapse(store)
    /\ runs' = [runs EXCEPT ![r].pc = "done", ![r].status_set = TRUE]
    /\ RunFrame

InitRunsVars ==
    /\ store = StoreWith(NoEntries)
    /\ runs = [r \in Callers |-> Caller("mint", 1)]
    /\ trail = <<NoOp, NoOp, NoOp>>
    /\ sret = NoneResult
    /\ ops = 0

NextRuns ==
    \E r \in Callers :
        \/ RunMint(r)
        \/ RunWait(r)
        \/ \E fails \in BOOLEAN : RunCreate(r, fails)
        \/ LogClock(r, "system")
        \/ \E fails \in BOOLEAN : LogWrite(r, fails)
        \/ \E fails \in BOOLEAN : LogUpdate(r, fails)
        \/ RunStatus(r)

----------------------------------------------------------------------------
NoStore == InitStoreVars /\ ~store.present

InitCache ==
    InitCacheVars /\ InitConcVars /\ NoStore /\ IdleProfVars /\ InitExecVars /\ IdleExtVars /\ IdleOtherVars

SpecCache ==
    InitCache /\ [][NextCache]_vars

InitCacheConc ==
    /\ cached_schemas = NoEntries
    /\ IdleCacheVars
    /\ InitConcVars
    /\ NoStore
    /\ IdleProfVars
    /\ InitExecVars /\ IdleExtVars /\ IdleOtherVars

SpecCacheConc ==
    InitCacheConc /\ [][NextCacheConc]_vars

InitStore ==
    InitCacheVars /\ InitConcVars /\ InitStoreVars /\ IdleProfVars /\ InitExecVars /\ IdleExtVars /\ IdleOtherVars

SpecStore ==
    InitStore /\ [][NextStore]_vars

InitProfiling ==
    InitCacheVars /\ InitConcVars /\ InitStoreVars /\ InitProfVars /\ InitExecVars /\ IdleExtVars /\ IdleOtherVars

SpecProfiling ==
    InitProfiling /\ [][NextProfiling]_vars

InitExec ==
    InitCacheVars /\ InitConcVars /\ NoStore /\ IdleProfVars /\ InitExecVars /\ IdleExtVars /\ IdleOtherVars

SpecExec == InitExec /\ [][NextExec]_vars

InitReport ==
    /\ InitCacheVars /\ InitConcVars /\ NoStore /\ IdleProfVars /\ InitExecVars /\ IdleExtVars
    /\ InitReportVars /\ IdleDataVars /\ IdleHandlerVars

SpecReport == InitReport /\ [][NextReport]_vars

InitData ==
    /\ InitCacheVars /\ InitConcVars /\ NoStore /\ IdleProfVars /\ InitExecVars /\ IdleExtVars
    /\ IdleReportVars /\ InitDataVars /\ IdleHandlerVars

SpecData == InitData /\ [][NextData]_vars

InitNumeric ==
    /\ InitCacheVars /\ InitConcVars /\ NoStore /\ IdleProfVars /\ InitExecVars /\ IdleExtVars
    /\ IdleReportVars /\ InitNumericVars /\ IdleHandlerVars

SpecNumeric == InitNumeric /\ [][NextData]_vars

InitHandlers ==
    /\ InitCacheVars /\ InitConcVars /\ NoStore /\ IdleProfVars /\ InitExecVars /\ IdleExtVars
    /\ IdleReportVars /\ IdleDataVars /\ InitHandlerVars

SpecHandlers == InitHandlers /\ [][NextHandlers]_vars

(* every variable of the earlier sections idle                             *)
IdleCore ==
    /\ InitCacheVars /\ InitConcVars /\ IdleProfVars /\ InitExecVars
    /\ IdleOtherVars

InitChart == IdleCore /\ NoStore /\ InitChartVars /\ IdleExt("chart")

SpecChart == InitChart /\ [][NextChart]_vars

InitSql == IdleCore /\ NoStore /\ InitSqlVars /\ IdleExt("sql")

SpecSql == InitSql /\ [][NextSql]_vars

InitRel == IdleCore /\ NoStore /\ InitRelVars /\ IdleExt("rel")

SpecRel == InitRel /\ [][NextRel]_vars

InitDelete == IdleCore /\ NoStore /\ InitDeleteVars /\ IdleExt("delete")

(* the call keeps running as long as it has a step to take                 *)
SpecDelete == InitDelete /\ [][NextDelete]_vars /\ WF_vars(NextDelete)

InitLogs ==
    /\ InitCacheVars /\ InitConcVars /\ IdleProfVars /\ InitExecVars
    /\ IdleOtherVars /\ InitLogsVars /\ IdleExt("runs")

SpecLogs == InitLogs /\ [][NextLogs]_vars

InitRuns ==
    /\ InitCacheVars /\ InitConcVars /\ IdleProfVars /\ InitExecVars
    /\ IdleOtherVars /\ InitRunsVars /\ IdleExt("runs")

SpecRuns == InitRuns /\ [][NextRuns]_vars

----------------------------------------------------------------------------
(* Schema cache: sequential contract.                                      *)

(* C1: a get_schema_prompt(k, table_ids) that directly follows             *)
(* register_schema(k, m) takes the cache-hit path and does not return the  *)
(* fallback prompt, whatever calls came before.                            *)
C1_RegisterThenGetHits ==
    (/\ call.op = "get_schema_prompt"
     /\ prev.op = "register_schema"
     /\ prev.project_id = call.project_id)
        => (ret.kind = "detailed" /\ ret.kind # "fallback")

C1_Witness ==
    /\ call.op = "get_schema_prompt"
    /\ prev.op = "register_schema"
    /\ prev.project_id = call.project_id
    /\ call.project_id = ""
    /\ ret.kind = "detailed"
    /\ ret.table_count = 0

(* C2: with no cache entry for the key, get_schema_prompt does not fail    *)
(* for any table_ids (None included); it returns the fallback text listing *)
(* exactly the table ids passed in, with the warning, and the cache is     *)
(* left as it was.                                                         *)
C2_MissGivesFallback ==
    [][(/\ call'.op = "get_schema_prompt"
        /\ call'.project_id \notin DOMAIN cached_schemas)
          => /\ ret' = [kind |-> "fallback",
                        project_id |-> call'.project_id,
                        lines |-> IF call'.table_ids.given
                                  THEN call'.table_ids.ids ELSE << >>,
                        warning |-> TRUE]
             /\ cached_schemas' = cached_schemas]_vars

C2_Witness ==
    /\ call.op = "get_schema_prompt"
    /\ ~before.present
    /\ ~call.table_ids.given
    /\ ret.kind = "fallback"
    /\ ret.lines = << >>
    /\ cached_schemas # NoEntries

(* C3: register_schema(k, m2) replaces the entry of k wholesale: the       *)
(* entry's tables are exactly those of m2 (a table of an earlier           *)
(* registration that m2 lacks is gone) and the entries of all other keys   *)
(* are unchanged.                                                          *)
C3_RegisterReplacesWholesale ==
    [][call'.op = "register_schema"
          => LET k == call'.project_id
                 t2 == MetaGet(call'.metadata, "tables", EmptyDict)
             IN  /\ k \in DOMAIN cached_schemas'
                 /\ cached_schemas'[k].tables = t2
                 /\ DictKeys(cached_schemas'[k].tables) = DictKeys(t2)
                 /\ \A o \in ProjectIds \ {k} :
                        EntryOf(cached_schemas', o) = EntryOf(cached_schemas, o)]_vars

C3_Witness ==
    /\ call.op = "register_schema"
    /\ before.present
    /\ \E t \in DictKeys(before.entry.tables) :
           t \notin DictKeys(cached_schemas[call.project_id].tables)
    /\ \E o \in ProjectIds \ {call.project_id} : o \in DOMAIN cached_schemas

(* C5: clear_cache(k) with a key removes exactly the entry of k (nothing   *)
(* when k is not cached) and leaves every other entry unchanged;           *)
(* clear_cache() without a key removes all entries.                        *)
C5_ClearRemovesExactlyKey ==
    [][call'.op = "clear_cache"
          => IF call'.given
             THEN /\ call'.project_id \notin DOMAIN cached_schemas'
                  /\ \A o \in ProjectIds \ {call'.project_id} :
                         EntryOf(cached_schemas', o) = EntryOf(cached_schemas, o)
             ELSE cached_schemas' = NoEntries]_vars

----------------------------------------------------------------------------
(* Schema cache: concurrent requests.                                      *)

CallsOn(p) == { r \in Requests : th[r].pc # "idle" /\ th[r].project_id = p }

(* C4, part 1: once no call on key A is in progress, the entry of A is the *)
(* metadata of the register_schema that executed last on A.                *)
LastWriteWins ==
    \A p \in ProjectIds :
        (CallsOn(p) = {} /\ last_write[p].written)
            => /\ p \in DOMAIN cached_schemas
               /\ cached_schemas[p] = SchemaEntry(p, last_write[p].metadata)

(* C4, part 2: a step of a call on key A leaves the entry of every other   *)
(* key as it was, and what a get_schema_prompt on A returns is determined  *)
(* by the entry of A alone.                                                *)
NoInterference ==
    \A r \in Requests :
        th'[r] # th[r] =>
            LET a == th'[r].project_id
                only == [k \in (DOMAIN cached_schemas) \cap {a} |-> cached_schemas[k]]
            IN  /\ \A b \in ProjectIds \ {a} :
                       EntryOf(cached_schemas', b) = EntryOf(cached_schemas, b)
                /\ (th[r].pc \in {"get_check", "get_read"} /\ th'[r].pc = "idle")
                       => th'[r].result =
                            get_schema_prompt(only, a, th[r].table_ids)

(* C4: under every interleaving of register_schema and get_schema_prompt   *)
(* calls, a call on key A neither reads nor changes the entry of a key     *)
(* B # A, and the entry of A ends as the last executed registration.       *)
C4_ConcurrentKeysIndependent == [](LastWriteWins) /\ [][NoInterference]_vars

C4_Witness ==
    /\ \A r \in Requests : th[r].pc = "idle" /\ th[r].calls = MaxCalls
    /\ last_write["p1"].written
    /\ last_write["p2"].written
    /\ cached_schemas["p1"] # cached_schemas["p2"]
    /\ th["r1"].result.kind = "detailed"

----------------------------------------------------------------------------
(* Session store: life cycle.                                              *)

LastIndex(logs, message) ==
    IF \E i \in DOMAIN logs : logs[i].message = message
    THEN CHOOSE i \in DOMAIN logs :
            /\ logs[i].message = message
            /\ \A j \in DOMAIN logs : logs[j].message = message => j <= i
    ELSE 0

LifeCycleRan ==
    /\ store.present
    /\ trail[1].op = "create" /\ trail[1].clean
    /\ trail[2].op = "update_status" /\ trail[2].clean
    /\ trail[2].status = StatusCompleted
    /\ trail[2].session_id = trail[1].session_id
    /\ trail[3].op = "get" /\ trail[3].clean /\ trail[3].include_logs
    /\ trail[3].session_id = trail[1].session_id

(* C9: with a working store, create_analysis_session, then                 *)
(* update_session_status(id, completed), then                              *)
(* get_analysis_session_with_logs(id, include_logs = true) returns a       *)
(* record with status completed and a non-empty logs list in which the     *)
(* completion log entry comes after the session-start log entry.           *)
C9_LifeCycleLogsCompletion ==
    LifeCycleRan =>
        /\ sret.found
        /\ sret.status = StatusCompleted
        /\ Len(sret.logs) > 0
        /\ LastIndex(sret.logs, MsgStarted) > 0
        /\ LastIndex(sret.logs, MsgCompleted) > LastIndex(sret.logs, MsgStarted)

C9_Witness ==
    /\ LifeCycleRan
    /\ ops = MaxOps
    /\ sret.status = StatusCompleted
    /\ Len(sret.logs) >= 2
    /\ sret.logs[Len(sret.logs)].message = MsgCompleted

----------------------------------------------------------------------------
(* Profiling event stream.                                                 *)

Terminals ==
    { i \in DOMAIN events : events[i].type \in {"profiling_complete", "error"} }

(* C6: a profiling stream holds at most one terminal event                 *)
(* (profiling_complete or error, never both), nothing is emitted after it, *)
(* and a generator that has run to its end has emitted exactly one.        *)
C6_OneTerminalEventLast ==
    /\ Cardinality(Terminals) <= 1
    /\ \A i \in Terminals : i = Len(events)
    /\ pf_pc = "done" => Cardinality(Terminals) = 1

C6_Witness ==
    /\ pf_pc = "done"
    /\ events[Len(events)].type = "profiling_complete"
    /\ \E i \in DOMAIN events : events[i] = SectionFailureEvent
    /\ \E i \in DOMAIN events : events[i].type = "report_section"

SessionStored == session_id.set /\ Exists(store, session_id.id)

(* C7: if the consumer disconnects after the session was created, the      *)
(* producer still runs to completion: the session has its profiling report *)
(* saved and its status is no longer in-progress.                          *)
C7_DisconnectStillPersists ==
    (pf_pc = "closed" /\ disconnected /\ SessionStored)
        => /\ store.sessions[session_id.id].profiling_report.saved
           /\ store.sessions[session_id.id].status # StatusRunning

(* C8: a run that has minted a session id and ends without reaching        *)
(* completion has called update_session_status(session_id, failed, ...),   *)
(* so its session is not left in-progress.                                 *)
C8_FailedMarkedWhenAborted ==
    (pf_pc \in {"done", "closed"} /\ SessionStored /\ ~marks.completed)
        => /\ marks.failed
           /\ store.sessions[session_id.id].status # StatusRunning

----------------------------------------------------------------------------
(* Warehouse execution.                                                    *)

(* C10: execute_bigquery never raises; when the client fails while the     *)
(* statement is submitted or its rows are read the call returns            *)
(* success = false with an error message, empty data and                   *)
(* error_type = "execution_error"; on success it returns success = true    *)
(* with row_count equal to the number of rows returned.                    *)
C10_ExecuteNeverRaises ==
    /\ ~ex_result.raised
    /\ ex_pc = "ended" =>
          /\ ex_result.returned
          /\ IF ex_result.success
             THEN /\ ex_result.row_count = ex_fetched
                  /\ Len(ex_result.data) = ex_fetched
                  /\ ex_result.error_type = ""
             ELSE /\ ex_result.error \in ClientErrors
                  /\ ex_result.data = << >>
                  /\ ex_result.error_type = "execution_error"

C10_Witness ==
    /\ ex_pc = "ended"
    /\ ex_fetched = 2
    /\ ~ex_result.success
    /\ ex_result.error = "Timeout"
    /\ ex_result.data = << >>

----------------------------------------------------------------------------
(* Report generation.                                                      *)

ReportEnded(method) == rp_pc = "ended" /\ rp_in.method = method

(* C11 as stated: generate_analysis_report called with an empty rows list  *)
(* returns the fixed nothing-to-analyze narrative with chart_config null,  *)
(* data_summary null and insights empty, and makes no call to the          *)
(* text-generation service.                                                *)
C11_EmptyRowsShortCircuit ==
    (ReportEnded("generate_analysis_report") /\ rp_in.rows = 0) =>
        /\ rp_result = NothingToAnalyze
        /\ rp_calls = << >>

(* C11, amended: on an analyzer that holds a text-generation client,       *)
(* generate_analysis_report called with an empty rows list returns the     *)
(* fixed narrative with chart_config null, data_summary null and insights  *)
(* empty and makes no call to the text-generation service; without a       *)
(* client the call raises, also without calling the service.               *)
C11_EmptyRowsShortCircuitWithClient ==
    (ReportEnded("generate_analysis_report") /\ rp_in.rows = 0) =>
        /\ rp_calls = << >>
        /\ IF rp_in.client
           THEN /\ rp_result.status = "returned"
                /\ rp_result.report = "nothing_to_analyze"
                /\ rp_result.chart_config = "null"
                /\ rp_result.data_summary = "null"
                /\ rp_result.insights = << >>
           ELSE rp_result = ClientMissing

C11_Witness ==
    /\ ReportEnded("generate_analysis_report")
    /\ rp_in.rows = 0
    /\ rp_in.client
    /\ rp_result.status = "returned"

(* C12: generate_html_report on non-empty rows makes at most two           *)
(* text-generation calls, the second only when the first attempt scored    *)
(* below 70 or failed; it returns the first document scoring >= 70 with    *)
(* fallback = false, returns the fallback document with fallback = true    *)
(* when no attempt reaches 70, and never raises because of a               *)
(* text-generation error.                                                  *)
C12_HtmlAtMostTwoCalls ==
    (rp_in.method = "generate_html_report" /\ rp_in.rows > 0) =>
        /\ Len(rp_calls) <= 2
        /\ Len(rp_calls) = 2 =>
              (rp_calls[1].failed \/ AttemptScore(rp_calls[1]) < 70)
        /\ rp_result.status = "raised" =>
              (~rp_in.client /\ rp_calls = << >>)
        /\ (rp_pc = "ended" /\ rp_in.client) =>
              /\ rp_result.status = "returned"
              /\ rp_calls # << >>
              /\ \A i \in 1..(Len(rp_calls) - 1) :
                    rp_calls[i].failed \/ AttemptScore(rp_calls[i]) < 70
              /\ LET last == rp_calls[Len(rp_calls)]
                 IN  IF ~last.failed /\ AttemptScore(last) >= 70
                     THEN /\ ~rp_result.fallback
                          /\ rp_result.html = CleanHtml(last)
                          /\ rp_result.quality_score = AttemptScore(last)
                     ELSE /\ rp_result.fallback
                          /\ Len(rp_calls) = 2
                          /\ rp_result.html = generate_fallback_html

C12_Witness ==
    /\ ReportEnded("generate_html_report")
    /\ rp_in.rows > 0
    /\ Len(rp_calls) = 2
    /\ rp_calls[1].failed
    /\ AttemptScore(rp_calls[2]) = 70
    /\ ~rp_result.fallback

(* A document that is complete except that it has no <style> and loads     *)
(* Chart.js from elsewhere than the cdnjs host.                            *)
MissingStyleAndChartCdn(html) ==
    /\ html.start = "doctype"
    /\ html.chartjs /\ ~html.cdn
    /\ html.new_chart
    /\ ~html.style

(* the penalties by marker, as a table                                     *)
ExpectedScore(html) ==
    100 - (IF html.start = "doctype" THEN 0 ELSE 20)
        - (IF html.chartjs /\ ~html.cdn THEN 20 ELSE 0)
        - (IF html.new_chart THEN 0 ELSE 15)
        - (IF html.style THEN 0 ELSE 15)

----------------------------------------------------------------------------
(* Profiling of result rows.                                               *)

Analyzed == da_result.status # "none"

RecordRows ==
    /\ da_in.shape = "list"
    /\ da_in.rows # << >>
    /\ \A i \in DOMAIN da_in.rows : da_in.rows[i].is_dict

FirstRowColumns == DictKeys(da_in.rows[1].cells)

ResultColumn(col) == da_result.columns[DictGet(da_result.columns, col)].info

(* the statistics of column col raise: float() overflows, set() meets an   *)
(* unhashable value, or min() compares a datetime with a date              *)
StatsRaise(col) ==
    LET values == ColumnValues(da_in.rows, col)
    IN  /\ values # << >>
        /\ \/ IsNumber(values[1]) /\ FloatRaises(values)
           \/ values[1].k = "str" /\ SetRaises(values)
           \/ IsDateLike(values[1]) /\ CompareRaises(values)

(* C14: an exception raised while computing the statistics of one column   *)
(* (numeric, categorical or datetime branch) is caught for that column,    *)
(* recorded as an entry of that column's data_quality_issues, and never    *)
(* aborts the profile: every other column of the first row is present.     *)
C14_ColumnFailureRecorded ==
    (Analyzed /\ RecordRows) =>
        /\ da_result.status = "returned"
        /\ \A col \in FirstRowColumns : DictHas(da_result.columns, col)
        /\ \A col \in FirstRowColumns :
              StatsRaise(col) =>
                  ResultColumn(col).data_quality_issues # << >>

(* C19: for every non-empty list of record rows, row_count is the number   *)
(* of rows and every column name of the first row is a key of columns,     *)
(* whatever the values of the other rows are.                              *)
C19_RowCountAndColumns ==
    (Analyzed /\ RecordRows) =>
        /\ da_result.status = "returned"
        /\ da_result.row_count = Len(da_in.rows)
        /\ \A col \in FirstRowColumns : DictHas(da_result.columns, col)
        /\ Len(da_result.columns) = Len(da_in.rows[1].cells)

C19_Witness ==
    /\ Analyzed /\ RecordRows
    /\ Len(da_in.rows) = 2
    /\ FirstRowColumns = {"a", "b"}
    /\ StatsRaise("a")
    /\ DictHas(da_result.columns, "b")
    /\ DictKeys(da_in.rows[2].cells) = {"a"}

(* the argument is not a sequence, or its first element is not a record    *)
Malformed ==
    \/ da_in.shape \in {"None", "zero", "scalar", "dict"}
    \/ da_in.shape = "list" /\ da_in.rows # << >> /\ ~da_in.rows[1].is_dict

(* C18: for every malformed input analyze_data_structure does not raise    *)
(* and returns a zeroed profile (row_count 0, no columns, data_quality     *)
(* all 0) that carries a pattern-error marker in patterns.                 *)
C18_MalformedInputZeroed ==
    (Analyzed /\ Malformed) =>
        /\ da_result.status = "returned"
        /\ da_result.row_count = 0
        /\ da_result.columns = EmptyDict
        /\ da_result.data_quality = ZeroQuality
        /\ da_result.patterns # << >>

(* C20: for every column profiled as numeric the reported statistics       *)
(* satisfy min <= median <= max and min <= mean <= max (min and max in     *)
(* thousandths, the rounded mean and median in hundredths).                *)
C20_NumericStatsOrdered ==
    (Analyzed /\ RecordRows) =>
        \A i \in DOMAIN da_result.columns :
            LET st == da_result.columns[i].info.stats
            IN  (da_result.columns[i].info.type = "numeric" /\ st.has) =>
                    /\ st.min <= 10 * st.median /\ 10 * st.median <= st.max
                    /\ st.min <= 10 * st.mean /\ 10 * st.mean <= st.max

----------------------------------------------------------------------------
(* Degradation of the session store; request handling.                     *)

(* C15: in the profiling workflow a session-store failure in any store     *)
(* operation, as well as an absent store, never fails the request: the     *)
(* stream goes on through metadata extraction and report generation and    *)
(* ends with profiling_complete rather than error.  The only exception     *)
(* that is not the store's is raised after the step-2 status event, so an  *)
(* error event of the generator's handler must follow that event.          *)
C15_StoreFailureNeverFailsRequest ==
    \A i \in DOMAIN events :
        events[i] = Ev("error", "exception") =>
            \E j \in 1..(i - 1) : events[j] = Ev("status", "step2")

(* the request must be rejected: no engine, a required field missing or    *)
(* empty, or no valid table id left                                        *)
MustReject(r) ==
    \/ ~r.engine
    \/ r.body # "with_question"
    \/ r.question # "text"
    \/ r.project_id = ""
    \/ validate_table_ids(SplitIds(r.raw_ids)) = << >>

(* C16: when the engine is not initialized, a required request field is    *)
(* missing or empty, or no valid table id remains after validation, the    *)
(* request is rejected before any call to the text-generation service,     *)
(* the warehouse client or the session store.                              *)
C16_RejectedBeforeAnyCall ==
    (hd_pc # "idle" /\ MustReject(hd_req)) => hd_calls = << >>

(* C17: every response of /quick and /analyze carries a success flag, and  *)
(* every response with success = false carries an error message and an     *)
(* error_type, on every failure path.                                      *)
C17_FailureCarriesErrorType ==
    hd_resp.sent =>
        /\ "success" \in hd_resp.keys
        /\ ~hd_resp.success =>
              /\ "error" \in hd_resp.keys
              /\ "error_type" \in hd_resp.keys

----------------------------------------------------------------------------
(* The numeric values of column col of the analysed input, and the         *)
(* quartile positions the outlier rule names.                              *)
InputNumbers(col) == NumericValues(ColumnValues(da_in.rows, col))

SortedAt(q, idx) == Sorted(q)[idx + 1]

(* v lies outside the fences of s = sorted q:                              *)
(* v < s[n//4] - 1.5 IQR or v > s[3n//4] + 1.5 IQR (sides doubled)         *)
OutsideFences(q, v) ==
    LET n == Len(q)
        lo == SortedAt(q, n \div 4)
        hi == SortedAt(q, (3 * n) \div 4)
    IN  \/ 2 * v < 2 * lo - 3 * (hi - lo)
        \/ 2 * v > 2 * hi + 3 * (hi - lo)

(* a column whose numeric statistics were computed                         *)
NumericColumn(i) ==
    /\ da_result.columns[i].info.type = "numeric"
    /\ da_result.columns[i].info.stats.has

OneToFourAndHundred ==
    [shape |-> "list",
     rows |-> <<NumericRow(1000), NumericRow(2000), NumericRow(3000),
                NumericRow(4000), NumericRow(100000)>>]

(* C21: for every numeric column the flagged outliers are exactly the      *)
(* values below s[n//4] - 1.5 IQR or above s[3n//4] + 1.5 IQR, s being the *)
(* sorted numeric values and IQR = s[3n//4] - s[n//4]: the reported count  *)
(* is the number of such values and the flagged list holds them and no     *)
(* others; for [1,2,3,4,100] the value 100 is the sole outlier.            *)
C21_OutliersAreValuesOutsideFences ==
    Analyzed =>
        /\ \A i \in DOMAIN da_result.columns :
              NumericColumn(i) =>
                  LET q == InputNumbers(da_result.columns[i].id)
                      flagged == OutlierValues(q)
                  IN  /\ da_result.columns[i].info.outliers =
                             Cardinality({ k \in DOMAIN q :
                                             OutsideFences(q, q[k]) })
                      /\ flagged = SelectSeq(q, LAMBDA v : OutsideFences(q, v))
        /\ da_in = OneToFourAndHundred =>
              /\ da_result.columns[1].info.outliers = 1
              /\ OutlierValues(InputNumbers("a")) = <<100000>>

C21_Witness ==
    /\ Analyzed
    /\ da_in = OneToFourAndHundred
    /\ da_result.columns[1].info.outliers = 1

(* the score of column i, in tenths, is exactly 100 - min(20, k/n * 100)   *)
ExactScore(i) ==
    LET k == da_result.columns[i].info.outliers
        n == Len(InputNumbers(da_result.columns[i].id))
    IN  da_result.columns[i].info.consistency_score * n =
            1000 * n - Min(200 * n, 1000 * k)

(* the same value rounded to one decimal                                   *)
RoundedScore(i) ==
    LET k == da_result.columns[i].info.outliers
        n == Len(InputNumbers(da_result.columns[i].id))
    IN  da_result.columns[i].info.consistency_score =
            RoundDiv(1000 * n - Min(200 * n, 1000 * k), n)

Unpenalised(i) == da_result.columns[i].info.data_quality_issues = << >>

(* C22 as stated: every column's consistency_score lies in 0..100; a       *)
(* numeric column with k > 0 outliers among n values scores exactly        *)
(* 100 - min(20, k/n * 100); a column without a penalty scores 100.        *)
C22_ScoreIsExactDeduction ==
    Analyzed =>
        \A i \in DOMAIN da_result.columns :
            /\ da_result.columns[i].info.consistency_score \in 0..1000
            /\ NumericColumn(i) /\ da_result.columns[i].info.outliers > 0
                   => ExactScore(i)

(* C22, amended: every column's consistency_score lies in 0..100; a        *)
(* numeric column with k > 0 outliers among n values scores                *)
(* 100 - min(20, k/n * 100) rounded to one decimal; a column whose         *)
(* analysis found no issue and raised nothing scores 100.                  *)
C22_ScoreIsRoundedDeduction ==
    Analyzed =>
        \A i \in DOMAIN da_result.columns :
            /\ da_result.columns[i].info.consistency_score \in 0..1000
            /\ NumericColumn(i) /\ da_result.columns[i].info.outliers > 0
                   => RoundedScore(i)
            /\ Unpenalised(i) /\ ~StatsRaise(da_result.columns[i].id)
                   => da_result.columns[i].info.consistency_score = 1000

(* one outlier among six values: the deduction 16.666... is reported as    *)
(* the score 83.3                                                          *)
C22_Witness ==
    /\ Analyzed
    /\ Len(da_result.columns) = 1
    /\ da_result.columns[1].info.outliers = 1
    /\ Len(InputNumbers("a")) = 6
    /\ da_result.columns[1].info.consistency_score = 833

----------------------------------------------------------------------------
(* Chart suggestion.                                                       *)

Suggested == ch_result # ChartPending

FirstValue(j) == ch_in.data[1][ch_in.columns[j]]

(* shape (a): two columns, a string first and a number second              *)
ShapeA ==
    /\ ch_in.data # << >>
    /\ Len(ch_in.columns) = 2
    /\ FirstValue(1).k = "str"
    /\ FirstValue(2).k = "num"

(* shape (b): three or more columns, numbers in all but the first          *)
ShapeB ==
    /\ ch_in.data # << >>
    /\ Len(ch_in.columns) >= 3
    /\ \A j \in 2..Len(ch_in.columns) : FirstValue(j).k = "num"

(* the same shapes with a missing first value counted as a string in the   *)
(* label column and as a number in a value column                          *)
ShapeAOrMissing ==
    /\ ch_in.data # << >>
    /\ Len(ch_in.columns) = 2
    /\ FirstValue(1).k \in {"str", "none"}
    /\ FirstValue(2).k \in {"num", "none"}

ShapeBOrMissing ==
    /\ ch_in.data # << >>
    /\ Len(ch_in.columns) >= 3
    /\ \A j \in 2..Len(ch_in.columns) : FirstValue(j).k \in {"num", "none"}

ChartAsSpecified ==
    /\ ch_result.type = "bar" =>
          /\ ch_result.label_column = ch_in.columns[1]
          /\ \/ ch_result.value_column = ch_in.columns[2]
             \/ ch_result.value_columns = Tail(ch_in.columns)
    /\ ch_result.type = "line" =>
          /\ Len(ch_in.columns) >= 3
          /\ ch_result.label_column = ch_in.columns[1]
          /\ ch_result.value_columns = Tail(ch_in.columns)

(* C23 as stated: a config is returned in exactly two shapes read from the *)
(* first row: two columns with a string first and a number second (bar,    *)
(* label = col1, value = col2), or three or more columns with numbers in   *)
(* every non-first column (line for more than one value column, else       *)
(* bar); every other input, every single-column input included, gets null. *)
C23_ChartOnlyForTwoShapes ==
    Suggested =>
        /\ ch_result # NoChart <=> (ShapeA \/ ShapeB)
        /\ ShapeA => ch_result = BarChart(ch_in.columns[1], ch_in.columns[2])
        /\ ShapeB => ch_result.type = (IF Len(ch_in.columns) > 2
                                       THEN "line" ELSE "bar")
        /\ ChartAsSpecified
        /\ Len(ch_in.columns) = 1 => ch_result = NoChart

(* C23, amended: the two shapes count a missing (null) first value as a    *)
(* string in the label column and as a number in a value column; with      *)
(* that reading a config is returned in exactly the two shapes, and every  *)
(* other input, every single-column input included, gets null.            *)
C23_ChartForTwoShapesOrMissing ==
    Suggested =>
        /\ ch_result # NoChart <=> (ShapeAOrMissing \/ ShapeBOrMissing)
        /\ ShapeAOrMissing =>
              ch_result = BarChart(ch_in.columns[1], ch_in.columns[2])
        /\ ShapeBOrMissing =>
              ch_result = SeriesChart(ch_in.columns[1], Tail(ch_in.columns))
        /\ ChartAsSpecified
        /\ Len(ch_in.columns) = 1 => ch_result = NoChart

(* two columns whose first values are both missing: a bar chart            *)
C23_Witness ==
    /\ Suggested
    /\ Len(ch_in.columns) = 2
    /\ ch_in.data # << >>
    /\ FirstValue(1) = NoneVal /\ FirstValue(2) = NoneVal
    /\ ch_result.type = "bar"

----------------------------------------------------------------------------
(* Cleaning of the generated SQL.                                          *)

Cleaned == sq_result # SqlPending

SqlFenceAt == FirstIndex(sq_in, LAMBDA l : l.kind = "fence_sql")

(* a fenced block: an opening fence and a later closing fence              *)
FencedBlock == Cardinality({ i \in DOMAIN sq_in : IsFence(sq_in[i]) }) >= 2

(* the lines between the fence at position i and the next fence            *)
BlockContent(i) ==
    LET rest == SubSeq(sq_in, i + 1, Len(sq_in))
        close == FirstIndex(rest, IsFence)
    IN  IF close = 0 THEN rest ELSE SubSeq(rest, 1, close - 1)

SelectedText ==
    IF SqlFenceAt # 0 THEN BlockContent(SqlFenceAt)
    ELSE IF FencedBlock THEN BlockContent(FirstIndex(sq_in, IsFence))
    ELSE sq_in

SelectOne == <<Line("sql", FALSE)>>

SelectOneFenced == <<Line("fence_sql", FALSE), Line("sql", FALSE),
                     Line("fence", FALSE)>>

(* C24: _clean_sql_query returns the content of the sql-tagged fenced      *)
(* block when there is one, else the content of the first fenced block,    *)
(* else the raw text; blank lines and comment lines naming no SQL keyword  *)
(* are removed, the other lines kept in order, and a semicolon is appended *)
(* exactly when the text does not end in one; fenced or unfenced,          *)
(* SELECT 1 becomes "SELECT 1;".                                           *)
C24_CleanSqlSelectsBlockAndTerminates ==
    Cleaned =>
        LET kept == SelectSeq(SelectedText, KeepLine)
        IN  /\ kept # << >> =>
                /\ Len(sq_result) = Len(kept)
                /\ \A i \in DOMAIN kept : sq_result[i].kind = kept[i].kind
                /\ \A i \in 1..(Len(kept) - 1) : sq_result[i].semi = kept[i].semi
            /\ kept = << >> => sq_result = <<Line("empty", TRUE)>>
            /\ sq_result[Len(sq_result)].semi
            /\ sq_in \in {SelectOne, SelectOneFenced} =>
                   sq_result = <<Line("sql", TRUE)>>

----------------------------------------------------------------------------
(* Relationships between tables.                                           *)

Related == rl_result # RelPending

TypeIn(table, name) ==
    { table.schema[i].type :
        i \in { j \in DOMAIN table.schema : table.schema[j].name = name } }

SharedFields == FieldNames(rl_in.table1) \cap FieldNames(rl_in.table2)

UnionFields == FieldNames(rl_in.table1) \cup FieldNames(rl_in.table2)

SameType(name) == TypeIn(rl_in.table1, name) = TypeIn(rl_in.table2, name)

KeyLike(name) ==
    name.tail \in {"_id", "_key"} \/ (name.stem = "id" /\ name.tail = "" /\ name.n = 0)

UserId == FieldName("user", "_id")

(* C25: a relationship record is emitted exactly when the strength         *)
(* |shared| / |union| * 100 exceeds 10 or there is a potential join key;   *)
(* the join keys are the shared fields of equal type, with confidence high *)
(* for names ending in _id or _key or equal to id and medium otherwise;    *)
(* two tables sharing user_id with one type yield a record with user_id    *)
(* marked high.                                                            *)
C25_RelationshipEmittedOnStrengthOrKey ==
    Related =>
        /\ rl_result.status = "record" <=>
              \/ 100 * Cardinality(SharedFields) > 10 * Cardinality(UnionFields)
              \/ \E name \in SharedFields : SameType(name)
        /\ rl_result.status = "record" =>
              /\ \A name \in SharedFields :
                    SameType(name) <=>
                        \E k \in rl_result.potential_join_keys : k.field = name
              /\ \A k \in rl_result.potential_join_keys :
                    /\ k.field \in SharedFields
                    /\ k.confidence = IF KeyLike(k.field) THEN "high"
                                      ELSE "medium"
        /\ (UserId \in SharedFields /\ SameType(UserId)) =>
              /\ rl_result.status = "record"
              /\ \E k \in rl_result.potential_join_keys :
                    k.field = UserId /\ k.confidence = "high"

(* user_id is the only shared field among more than ten: the record is     *)
(* emitted for the join key alone                                          *)
C25_Witness ==
    /\ Related
    /\ SharedFields = {UserId}
    /\ SameType(UserId)
    /\ Cardinality(UnionFields) > 10
    /\ rl_result.status = "record"
    /\ \E k \in rl_result.potential_join_keys :
          k.field = UserId /\ k.confidence = "high"

----------------------------------------------------------------------------
(* The report bundle.                                                      *)

(* /analyze has answered after SQL generation and execution succeeded:     *)
(* the response is not the execution-failure response and both             *)
(* collaborators were called                                               *)
AnalyzeRanQuery ==
    /\ hd_req.route = "/analyze"
    /\ hd_resp.sent
    /\ Len(hd_calls) >= 2
    /\ hd_calls[1] = "text_generation"
    /\ hd_calls[2] = "warehouse"
    /\ "error_type" \notin hd_resp.keys

(* C29: every result generate_analysis_report returns, the one for an      *)
(* empty result set included, holds report, chart_config, data_summary,    *)
(* insights and data_analysis, so that /analyze can build its response     *)
(* from it: once SQL generation and execution have succeeded and no        *)
(* further service call was made (the query returned no rows), the answer  *)
(* has success = true.                                                     *)
C29_EveryReportCarriesFiveFields ==
    (AnalyzeRanQuery /\ Len(hd_calls) = 2) => hd_resp.success

----------------------------------------------------------------------------
(* Isolation of report sections.                                           *)

SectionFailures == { i \in DOMAIN events : events[i] = SectionFailureEvent }

(* C27: a text-generation failure in one report section does not end the   *)
(* stream with an error event; the sections are attempted in the order     *)
(* overview, table_analysis, relationships, business_questions,            *)
(* recommendations, failed ones included, and a stream that ran to its end *)
(* after such a failure ends with profiling_complete and a report holding  *)
(* an entry for each of the five sections.                                 *)
C27_SectionFailureIsolated ==
    /\ \A i \in SectionFailures :
          \A j \in (i + 1)..Len(events) : events[j].type # "error"
    /\ Len(sections) <= Len(SectionKeys)
    /\ \A k \in DOMAIN sections : sections[k].id = SectionKeys[k]
    /\ (SectionFailures # {} /\ pf_pc \in {"y_status3", "y_status4"}) =>
          Len(sections) = Len(SectionKeys)
    /\ (SectionFailures # {} /\ pf_pc \in {"y_complete", "done"}) =>
          /\ events[Len(events)] = Ev("profiling_complete", "report")
          /\ Len(sections) = Len(SectionKeys)

(* the first section failed, a later one was written, the stream ended     *)
C27_Witness ==
    /\ pf_pc = "done"
    /\ SectionFailures # {}
    /\ Len(sections) = Len(SectionKeys)
    /\ sections[1].info = "failed"
    /\ \E k \in DOMAIN sections : sections[k].info = "content"
    /\ events[Len(events)] = Ev("profiling_complete", "report")

----------------------------------------------------------------------------
(* Deletion of a session.                                                  *)

DeleteReturned == dl_pc.at = "returned"

(* C28: delete_analysis_session terminates and returns a boolean for a     *)
(* session with any number of log entries, 500 or more included, and when  *)
(* it returns true the session record and all its log entries are gone.    *)
C28_DeleteTerminates ==
    /\ <>DeleteReturned
    /\ [](DeleteReturned /\ dl_ret => ~dl_session /\ dl_logs = 0)

----------------------------------------------------------------------------
(* Concurrent use of the session store.                                    *)

RECURSIVE SumOver(_, _)
SumOver(S, f) ==
    IF S = {} THEN 0
    ELSE LET r == CHOOSE x \in S : TRUE
         IN  f[r] + SumOver(S \ {r}, f)

(* number of add_log calls that returned a log id                          *)
Successful == SumOver(Callers, [r \in Callers |-> runs[r].ok])

(* no add_log call is in progress and none has failed                      *)
AllReturnedLogIds ==
    \A r \in Callers : runs[r].pc \in {"add_log", "done"} /\ runs[r].bad = 0

(* C26: the log of a session is append-only under any interleaving of      *)
(* add_log calls: each successful call adds one entry and replaces none,   *)
(* so after n successful calls the session holds n log entries and its     *)
(* log_count is n.                                                         *)
C26_EverySuccessfulAddLogAddsOneEntry ==
    AllReturnedLogIds =>
        /\ Cardinality(DOMAIN LogsOf(store, 0)) = Successful
        /\ store.sessions[0].log_count = Successful

(* C30: two profiling runs started concurrently have distinct session      *)
(* ids, so that create_analysis_session of one run never replaces the      *)
(* session record of the other and their logs and status updates go to     *)
(* different sessions.                                                     *)
C30_ConcurrentRunsGetDistinctIds ==
    /\ (runs[1].minted /\ runs[2].minted) => runs[1].sid # runs[2].sid
    /\ \A r \in Callers : ~runs[r].overwrote

====
